---- MODULE Spec2Model ----
(***************************************************************************)
(* Peer discovery and task delegation of ai_core/distributed_ai.c.         *)
(*                                                                         *)
(* Every node owns one distributed_ai_system_t: a registry of peers        *)
(* (agents), a session table (active_tasks), a listener thread             *)
(* (discovery_thread) and a coordination thread.  Callers of               *)
(* anbs_distributed_ai_submit_task are separate threads.                   *)
(*                                                                         *)
(* Text is modelled by strings, a session id (a uuid string) by a natural  *)
(* number with 0 for the empty string, time_t by a natural number.         *)
(***************************************************************************)
EXTENDS Integers, Sequences, FiniteSets, TLC

(* ------------------------------ bounds -------------------------------- *)
\* calls of submit made in one behaviour
MaxSubmits == 1
\* steps of the clock in one behaviour
MaxTicks == 1
\* TaskRequest datagrams with one session id a listener is given
MaxRequests == 1
\* free rows of the session table in the initial states of SpecFull
Room == 1
\* registry rows in the initial states of SpecSelect
SelRows == 2
\* free rows of the registry in the initial state of SpecCrowded
Vacant == 2
\* turns of submit's polling loop taken while the other threads run
MaxPolls == 1
\* TaskRequest datagrams with one session id given to the listener of SpecRepeats
MaxRepeats == 2
\* free rows of the session table in the initial states of SpecPair, at most
Spare == 2
\* calls of anbs_distributed_ai_init after the first
MaxStarts == 2

(* ------------------------- program constants -------------------------- *)
MAX_AI_AGENTS == 10
MAX_MESSAGE_SIZE == 8192
ID_SIZE == 64
MAX_TASKS == 100
DISCOVERY_PORT == 9876
COMM_PORT_BASE == 9877
QUEUE_CEILING == 5
POLL_TIMEOUT == 30
STALE_AFTER == 30
DEFAULT_PRIORITY == 5

MSG_TYPE_DISCOVERY == 1
MSG_TYPE_HANDSHAKE == 2
MSG_TYPE_TASK_REQUEST == 3
MSG_TYPE_TASK_RESPONSE == 4
MSG_TYPE_HEARTBEAT == 6
MSG_TYPE_SHUTDOWN == 10

AGENT_STATUS_OFFLINE == "OFFLINE"
AGENT_STATUS_DISCOVERING == "DISCOVERING"
AGENT_STATUS_ONLINE == "ONLINE"

NoAgentsText == "No available AI agents in distributed network"
QueueFullText == "Task queue full"
TimeoutText == "Task timeout - no response from distributed AI network"
HandshakePayload == "capabilities=terminal,ai_commands,memory_search,file_analysis;status=online;load=0.0;memory=0.0"
DiscoveryPayload == "capabilities=terminal,ai_commands,memory_search,file_analysis;status=online"

(* ------------------------------ universe ------------------------------ *)
\* the started nodes; a node's name stands for its local_agent_id
Nodes == {"A", "B"}
\* the threads that call submit, and the node each runs on
Callers == {"c1", "c2"}
\* the caller of the specifications with one caller of submit
Solo == {"c1"}
Home(c) == "A"
\* sender ids of datagrams that come from outside the nodes' own code
SenderIds == {"A", "B", "X", "Y"}
\* task descriptions and payload texts
Descs == {"x"}
\* the texts a TaskResponse from outside carries
Payloads == {"Task processed by B: x", "q"}
ShutdownPayload == "System shutting down"
\* the session id of the TaskRequests of other hosts
ForeignSid == 901
\* a session id no TaskRequest and no submit carries
UnknownSid == 902
\* a datagram json_tokener_parse rejects
Garbage == [malformed |-> TRUE]

VARIABLES
    now,         \* time(NULL)
    ticks,       \* steps the clock has made
    agents,      \* agents[n]: the registry rows 1..agent_count of node n
    tasks,       \* tasks[n]: the session rows 1..task_count of node n
    uuids,       \* uuids[n]: calls of uuid_generate made by node n
    net,         \* broadcast datagrams sent to the discovery port
    pc,          \* pc[c]: where caller c is in submit
    timeout,     \* timeout[c]: submit's local countdown
    task,        \* task[c]: submit's local pointer into active_tasks (an index)
    best_agent,  \* best_agent[c]: submit's local pointer into agents (an index)
    rc,          \* rc[c]: the value the last submit of c returned
    result,      \* result[c]: the text the last submit of c stored in *result
    submits,     \* calls of submit made so far
    out,         \* what the last step handed to send_message_to_agent
    discoveries, \* discoveries[n][id]: Discovery datagrams with sender id that n's
                 \* listener received: 0, 1, or 2 for two or more
    codec,       \* one message on its way through create_message,
                 \* send_message_to_agent and parse_message
    running,     \* g_ai_system->running of the local node
    mutex,       \* the owner of agents_mutex and of tasks_mutex ("" when free)
    at,          \* at[t]: where thread t of the local node is
    lmsg,        \* the listener's local msg
    cursor,      \* the index of the coordinator's display loop
    seen,        \* the row the display loop read last
    report,      \* what get_status has put in its report
    booted       \* anbs_distributed_ai_init: the identity it generated last (the number of
                 \* the generation), the threads it has created, what its last call
                 \* returned, and its calls after the first

\* the state of the threads' own steps
tvars == <<running, mutex, at, lmsg, cursor, seen, report, booted>>
xvars == <<codec, running, mutex, at, lmsg, cursor, seen, report, booted>>

vars == <<now, ticks, agents, tasks, uuids, net, pc, timeout, task, best_agent,
          rc, result, submits, out, discoveries, codec,
          running, mutex, at, lmsg, cursor, seen, report, booted>>

\* the threads of a node besides the callers of submit
Threads == {"listener", "coordinator", "reporter", "stopper"}

\* parse_message's msg after memset
NoMsg == [type |-> 0, sender_id |-> "", recipient_id |-> "", session_id |-> 0,
          timestamp |-> 0, payload |-> ""]

\* a registry row of the calloc'ed system that no handler has written
ZeroAgent ==
    [agent_id |-> "", port |-> 0, status |-> "OFFLINE", last_seen |-> 0, cpu_load |-> 0,
     memory_usage |-> 0, task_queue_size |-> 0, capabilities |-> ""]

NoRow == [none |-> TRUE]

\* init has returned: the flag is set, the locks are free, the two loops are at their
\* heads, nobody is in get_status or in cleanup, and no message is on its way
InitT ==
    /\ running = 1
    /\ mutex = [agents_mutex |-> "", tasks_mutex |-> ""]
    /\ at = [t \in Threads |-> IF t \in {"listener", "coordinator"} THEN "check" ELSE "idle"]
    /\ lmsg = NoMsg
    /\ cursor = 0
    /\ seen = NoRow
    /\ report = [agent_count |-> 0, agents |-> 0, tasks |-> 0]
    /\ booted = [local_agent_id |-> 1, threads |-> 2, rc |-> 0, calls |-> 0]

InitX == codec = [stage |-> "none"] /\ InitT

(* ------------------------------ helpers ------------------------------- *)
\* uuid_generate: a value never produced before, on any node
Uuid(n, k) == (IF n = "A" THEN 0 ELSE 400) + k

\* the result text the TaskRequest handler builds
ProcessedBy(n, payload) == "Task processed by " \o n \o ": " \o payload

\* the index of the first registry row whose agent_id is id, 0 when there is none
FindAgent(ag, id) ==
    IF \E i \in 1..Len(ag) : ag[i].agent_id = id
    THEN CHOOSE i \in 1..Len(ag) :
            /\ ag[i].agent_id = id
            /\ \A j \in 1..(i - 1) : ag[j].agent_id # id
    ELSE 0

\* the index of the first session row whose session_id is sid, 0 when there is none
FindTask(tk, sid) ==
    IF \E i \in 1..Len(tk) : tk[i].session_id = sid
    THEN CHOOSE i \in 1..Len(tk) :
            /\ tk[i].session_id = sid
            /\ \A j \in 1..(i - 1) : tk[j].session_id # sid
    ELSE 0

(* --------------------------- message codec ---------------------------- *)
\* strncpy(dst, src, size - 1) into a zeroed dst of size bytes
Copy(text, size) == IF Len(text) > size - 1 THEN SubSeq(text, 1, size - 1) ELSE text

\* the payload bytes copied into the zeroed payload[MAX_MESSAGE_SIZE]
Clamp(text) ==
    IF Len(text) >= MAX_MESSAGE_SIZE THEN SubSeq(text, 1, MAX_MESSAGE_SIZE - 1) ELSE text

\* a NULL recipient or payload leaves the zeroed member: the empty text
create_message(type, n, recipient, payload, t, u) ==
    [type         |-> type,
     sender_id    |-> Copy(n, ID_SIZE),
     recipient_id |-> Copy(recipient, ID_SIZE),
     session_id   |-> IF type \in {MSG_TYPE_TASK_REQUEST, MSG_TYPE_TASK_RESPONSE} THEN u ELSE 0,
     timestamp    |-> t,
     payload      |-> Clamp(payload)]

\* the JSON object send_message_to_agent writes: the six members
Encode(msg) ==
    [type      |-> msg.type,
     sender    |-> msg.sender_id,
     recipient |-> msg.recipient_id,
     session   |-> msg.session_id,
     timestamp |-> msg.timestamp,
     payload   |-> msg.payload]

ParseOk(d) == d # Garbage

\* parse_message: the message is zeroed, then every member that is present is copied
parse_message(d) ==
    [type         |-> IF "type" \in DOMAIN d THEN d.type ELSE 0,
     sender_id    |-> IF "sender" \in DOMAIN d THEN Copy(d.sender, ID_SIZE) ELSE "",
     recipient_id |-> IF "recipient" \in DOMAIN d THEN Copy(d.recipient, ID_SIZE) ELSE "",
     session_id   |-> IF "session" \in DOMAIN d THEN d.session ELSE 0,
     timestamp    |-> IF "timestamp" \in DOMAIN d THEN d.timestamp ELSE 0,
     payload      |-> IF "payload" \in DOMAIN d THEN Clamp(d.payload) ELSE ""]

(* ------------------------- handle_message ----------------------------- *)
NewAgent(id, count, t) ==
    [agent_id        |-> id,
     port            |-> COMM_PORT_BASE + count,
     status          |-> AGENT_STATUS_DISCOVERING,
     last_seen       |-> t,
     cpu_load        |-> 0,
     memory_usage    |-> 0,
     task_queue_size |-> 0,
     capabilities    |-> ""]

\* HandleDiscovery giving the last row of a full registry to an unknown sender
HandleDiscoveryEvict(ag, msg, t) ==
    LET i == FindAgent(ag, msg.sender_id) IN
    IF i # 0 THEN [ag EXCEPT ![i].last_seen = t]
    ELSE IF Len(ag) < MAX_AI_AGENTS
         THEN Append(ag, NewAgent(msg.sender_id, Len(ag) + 1, t))
         ELSE [ag EXCEPT ![Len(ag)] = NewAgent(msg.sender_id, Len(ag), t)]

\* HandleDiscovery without the search for the sender's row
HandleDiscoveryNoSearch(ag, msg, t) ==
    IF Len(ag) < MAX_AI_AGENTS
    THEN Append(ag, NewAgent(msg.sender_id, Len(ag) + 1, t))
    ELSE ag

\* HandleDiscovery starting the cycle again for a sender it knows
HandleDiscoveryRevive(ag, msg, t) ==
    LET i == FindAgent(ag, msg.sender_id) IN
    IF i = 0 /\ Len(ag) < MAX_AI_AGENTS
    THEN Append(ag, NewAgent(msg.sender_id, Len(ag) + 1, t))
    ELSE IF i # 0 THEN [ag EXCEPT ![i].last_seen = t, ![i].status = AGENT_STATUS_DISCOVERING]
    ELSE ag

\* case MSG_TYPE_DISCOVERY: find the sender's row or add one, refresh last_seen
HandleDiscovery(ag, msg, t) ==
    LET i == FindAgent(ag, msg.sender_id) IN
    IF i = 0 /\ Len(ag) < MAX_AI_AGENTS
    THEN Append(ag, NewAgent(msg.sender_id, Len(ag) + 1, t))
    ELSE IF i # 0 THEN [ag EXCEPT ![i].last_seen = t]
    ELSE ag

\* case MSG_TYPE_HANDSHAKE: the sender's row goes Online and takes the payload
HandleHandshake(ag, msg, t) ==
    LET i == FindAgent(ag, msg.sender_id) IN
    IF i # 0
    THEN [ag EXCEPT ![i].status = AGENT_STATUS_ONLINE,
                    ![i].last_seen = t,
                    ![i].capabilities = msg.payload]
    ELSE ag

\* HandleHeartbeat leaving a row that is Offline as it is
HandleHeartbeatLive(ag, msg, t) ==
    LET i == FindAgent(ag, msg.sender_id) IN
    IF i # 0 /\ ag[i].status # AGENT_STATUS_OFFLINE
    THEN [ag EXCEPT ![i].last_seen = t, ![i].status = AGENT_STATUS_ONLINE]
    ELSE ag

\* HandleHeartbeat taking the queue depth the peer reports (none in PeerPayload)
HandleHeartbeatParsed(ag, msg, t) ==
    LET i == FindAgent(ag, msg.sender_id) IN
    IF i # 0
    THEN [ag EXCEPT ![i].last_seen = t, ![i].status = AGENT_STATUS_ONLINE,
                    ![i].task_queue_size = 0]
    ELSE ag

\* case MSG_TYPE_HEARTBEAT: the sender's row goes Online
HandleHeartbeat(ag, msg, t) ==
    LET i == FindAgent(ag, msg.sender_id) IN
    IF i # 0
    THEN [ag EXCEPT ![i].last_seen = t, ![i].status = AGENT_STATUS_ONLINE]
    ELSE ag

\* HandleTaskRequest without the capacity test
HandleTaskRequestUnbounded(tk, msg, n, t) ==
    Append(tk, [session_id       |-> msg.session_id,
                task_description |-> msg.payload,
                assigned_agent   |-> n,
                created          |-> msg.timestamp,
                started          |-> t,
                completed        |-> t,
                priority         |-> DEFAULT_PRIORITY,
                result           |-> ProcessedBy(n, msg.payload),
                status           |-> "completed"])

\* case MSG_TYPE_TASK_REQUEST: a new row, processed at once
HandleTaskRequest(tk, msg, n, t) ==
    IF Len(tk) < MAX_TASKS
    THEN Append(tk, [session_id       |-> msg.session_id,
                     task_description |-> msg.payload,
                     assigned_agent   |-> n,
                     created          |-> msg.timestamp,
                     started          |-> t,
                     completed        |-> t,
                     priority         |-> DEFAULT_PRIORITY,
                     result           |-> ProcessedBy(n, msg.payload),
                     status           |-> "completed"])
    ELSE tk

\* HandleTaskResponse giving the result of an unknown session to the first row
HandleTaskResponseAdopt(tk, msg, t) ==
    LET i == FindTask(tk, msg.session_id) IN
    IF i # 0
    THEN [tk EXCEPT ![i].result = msg.payload,
                    ![i].completed = t,
                    ![i].status = "completed"]
    ELSE IF Len(tk) > 0 THEN [tk EXCEPT ![1].result = msg.payload] ELSE tk

\* HandleTaskResponse taking the result from the assigned peer only
HandleTaskResponseFromAssignee(tk, msg, t) ==
    LET i == FindTask(tk, msg.session_id) IN
    IF i # 0 /\ tk[i].assigned_agent = msg.sender_id
    THEN [tk EXCEPT ![i].result = msg.payload,
                    ![i].completed = t,
                    ![i].status = "completed"]
    ELSE tk

\* HandleTaskResponse without the stamp of the completion time
HandleTaskResponseUnstamped(tk, msg, t) ==
    LET i == FindTask(tk, msg.session_id) IN
    IF i # 0
    THEN [tk EXCEPT ![i].result = msg.payload,
                    ![i].status = "completed"]
    ELSE tk

\* HandleTaskResponse taking a repeated response for the start of another round
HandleTaskResponseReopen(tk, msg, t) ==
    LET i == FindTask(tk, msg.session_id) IN
    IF i # 0
    THEN [tk EXCEPT ![i].result = msg.payload,
                    ![i].completed = t,
                    ![i].status = IF tk[i].status = "completed" THEN "processing" ELSE "completed"]
    ELSE tk

\* case MSG_TYPE_TASK_RESPONSE: the first row with the session id takes the result
HandleTaskResponse(tk, msg, t) ==
    LET i == FindTask(tk, msg.session_id) IN
    IF i # 0
    THEN [tk EXCEPT ![i].result = msg.payload,
                    ![i].completed = t,
                    ![i].status = "completed"]
    ELSE tk

\* the registry after handle_message(msg)
HandledAgents(ag, msg, t) ==
    CASE msg.type = MSG_TYPE_DISCOVERY -> HandleDiscovery(ag, msg, t)
      [] msg.type = MSG_TYPE_HANDSHAKE -> HandleHandshake(ag, msg, t)
      [] msg.type = MSG_TYPE_HEARTBEAT -> HandleHeartbeat(ag, msg, t)
      [] OTHER -> ag

\* the session table after handle_message(msg)
HandledTasks(tk, msg, n, t) ==
    CASE msg.type = MSG_TYPE_TASK_REQUEST -> HandleTaskRequest(tk, msg, n, t)
      [] msg.type = MSG_TYPE_TASK_RESPONSE -> HandleTaskResponse(tk, msg, t)
      [] OTHER -> tk

\* uuid_generate calls of handle_message(msg): create_message for the TaskResponse
HandledUuids(tk, msg) ==
    IF msg.type = MSG_TYPE_TASK_REQUEST /\ Len(tk) < MAX_TASKS THEN 1 ELSE 0

\* Dispatched without the comparison with the local id
DispatchedAll(n, msg) == TRUE

\* the listener hands msg to handle_message unless it carries the local id
Dispatched(n, msg) == msg.sender_id # n

\* one turn of discovery_thread's loop on the datagram d
Listen(n, d) ==
    /\ IF ParseOk(d) /\ Dispatched(n, parse_message(d))
       THEN LET msg == parse_message(d) IN
            /\ agents' = [agents EXCEPT ![n] = HandledAgents(@, msg, now)]
            /\ tasks' = [tasks EXCEPT ![n] = HandledTasks(@, msg, n, now)]
            /\ uuids' = [uuids EXCEPT ![n] = @ + HandledUuids(tasks[n], msg)]
       ELSE UNCHANGED <<agents, tasks, uuids>>
    /\ discoveries' = IF ParseOk(d) /\ parse_message(d).type = MSG_TYPE_DISCOVERY
                      THEN [discoveries EXCEPT ![n][parse_message(d).sender_id] =
                                IF @ < 2 THEN @ + 1 ELSE @]
                      ELSE discoveries
    /\ out' = << >>
    /\ UNCHANGED <<now, ticks, net, pc, timeout, task, best_agent, rc, result, submits>>
    /\ UNCHANGED xvars

(* ------------------------------ Init ---------------------------------- *)
InitTables ==
    /\ now = 1
    /\ ticks = 0
    /\ agents = [n \in Nodes |-> << >>]
    /\ tasks = [n \in Nodes |-> << >>]
    /\ uuids = [n \in Nodes |-> 0]
    /\ net = {}
    /\ pc = [c \in Callers |-> "idle"]
    /\ timeout = [c \in Callers |-> 0]
    /\ task = [c \in Callers |-> 0]
    /\ best_agent = [c \in Callers |-> 0]
    /\ rc = [c \in Callers |-> 0]
    /\ result = [c \in Callers |-> ""]
    /\ submits = 0
    /\ out = << >>
    /\ discoveries = [n \in Nodes |-> [id \in SenderIds |-> 0]]

Init == InitTables /\ InitX

(* ------------------------- submit_task -------------------------------- *)
\* Available without the ceiling on the queue depth
AvailableAnyDepth(a) == a.status = AGENT_STATUS_ONLINE

\* the rows the selection loop considers
Available(a) == a.status = AGENT_STATUS_ONLINE /\ a.task_queue_size < QUEUE_CEILING

RECURSIVE SelectFromLast(_, _, _)
\* SelectFrom replacing the row chosen so far by a row of equal depth
SelectFromLast(ag, i, best) ==
    IF i > Len(ag) THEN best
    ELSE IF /\ Available(ag[i])
            /\ (best = 0 \/ ag[i].task_queue_size <= ag[best].task_queue_size)
         THEN SelectFromLast(ag, i + 1, i)
         ELSE SelectFromLast(ag, i + 1, best)

RECURSIVE SelectFrom(_, _, _)
\* the selection loop from row i on, best being the row chosen so far (0: none)
SelectFrom(ag, i, best) ==
    IF i > Len(ag) THEN best
    ELSE IF /\ Available(ag[i])
            /\ (best = 0 \/ ag[i].task_queue_size < ag[best].task_queue_size)
         THEN SelectFrom(ag, i + 1, i)
         ELSE SelectFrom(ag, i + 1, best)

\* TableFull letting one row more in
TableFullOffByOne(tk) == Len(tk) > MAX_TASKS

\* the capacity test of submit
TableFull(tk) == Len(tk) >= MAX_TASKS

\* best_agent after the loop: an index, 0 for NULL
BestAgent(ag) == SelectFrom(ag, 1, 0)

\* NewTask leaving assigned_agent empty
NewTaskUnassigned(sid, description, agent, t) ==
    [session_id       |-> sid,
     task_description |-> description,
     assigned_agent   |-> "",
     created          |-> t,
     started          |-> 0,
     completed        |-> 0,
     priority         |-> DEFAULT_PRIORITY,
     result           |-> "",
     status           |-> "submitted"]

\* the row submit fills for its session
NewTask(sid, description, agent, t) ==
    [session_id       |-> sid,
     task_description |-> description,
     assigned_agent   |-> agent,
     created          |-> t,
     started          |-> 0,
     completed        |-> 0,
     priority         |-> DEFAULT_PRIORITY,
     result           |-> "",
     status           |-> "submitted"]

\* one call of send_message_to_agent: the addressee, the message, whether it went out
Sent(agent_id, port, msg) == [to |-> agent_id, port |-> port, msg |-> msg]

\* what submit does from the selection loop to the polling loop
Submitted(c) ==
    LET n == Home(c)
        best == BestAgent(agents[n])
    IN
    /\ submits' = submits + 1
    /\ \E description \in Descs :
        IF best = 0
        THEN /\ result' = [result EXCEPT ![c] = NoAgentsText]
             /\ rc' = [rc EXCEPT ![c] = -1]
             /\ pc' = [pc EXCEPT ![c] = "done"]
             /\ best_agent' = [best_agent EXCEPT ![c] = 0]
             /\ task' = [task EXCEPT ![c] = 0]
             /\ timeout' = [timeout EXCEPT ![c] = 0]
             /\ out' = << >>
             /\ UNCHANGED <<agents, tasks, uuids>>
        ELSE IF TableFull(tasks[n])
        THEN /\ result' = [result EXCEPT ![c] = QueueFullText]
             /\ rc' = [rc EXCEPT ![c] = -1]
             /\ pc' = [pc EXCEPT ![c] = "done"]
             /\ best_agent' = [best_agent EXCEPT ![c] = best]
             /\ task' = [task EXCEPT ![c] = 0]
             /\ timeout' = [timeout EXCEPT ![c] = 0]
             /\ out' = << >>
             /\ UNCHANGED <<agents, tasks, uuids>>
        ELSE LET sid == Uuid(n, uuids[n] + 1)
                 peer == agents[n][best]
                 created == create_message(MSG_TYPE_TASK_REQUEST, n, peer.agent_id,
                                           description, now, Uuid(n, uuids[n] + 2))
                 task_msg == [created EXCEPT !.session_id = sid]
             IN
             /\ tasks' = [tasks EXCEPT ![n] = Append(@, NewTask(sid, description, peer.agent_id, now))]
             /\ uuids' = [uuids EXCEPT ![n] = @ + 2]
             /\ out' = << Sent(peer.agent_id, peer.port, task_msg) >>
             /\ agents' = [agents EXCEPT ![n][best].task_queue_size = @ + 1]
             /\ result' = [result EXCEPT ![c] = ""]
             /\ rc' = [rc EXCEPT ![c] = 0]
             /\ pc' = [pc EXCEPT ![c] = "poll"]
             /\ best_agent' = [best_agent EXCEPT ![c] = best]
             /\ task' = [task EXCEPT ![c] = Len(tasks[n]) + 1]
             /\ timeout' = [timeout EXCEPT ![c] = POLL_TIMEOUT]
    /\ UNCHANGED <<now, ticks, net, discoveries>>

\* submit up to the polling loop: selection, allocation, send, queue increment
Submit(c) ==
    /\ pc[c] \in {"idle", "done"}
    /\ submits < MaxSubmits
    /\ Submitted(c)
    /\ UNCHANGED xvars

\* one turn of submit's polling loop: the check under the lock, sleep(1), timeout--
Poll(c) ==
    LET n == Home(c)
        row == tasks[n][task[c]]
    IN
    /\ pc[c] = "poll"
    /\ IF row.status = "completed"
       THEN /\ result' = [result EXCEPT ![c] = row.result]
            /\ rc' = [rc EXCEPT ![c] = 0]
            /\ pc' = [pc EXCEPT ![c] = "done"]
            /\ UNCHANGED timeout
       ELSE /\ timeout' = [timeout EXCEPT ![c] = @ - 1]
            /\ IF timeout[c] - 1 > 0
               THEN UNCHANGED <<result, rc, pc>>
               ELSE /\ result' = [result EXCEPT ![c] = TimeoutText]
                    /\ rc' = [rc EXCEPT ![c] = -1]
                    /\ pc' = [pc EXCEPT ![c] = "done"]
    /\ out' = << >>
    /\ UNCHANGED <<now, ticks, agents, tasks, uuids, net, task, best_agent, submits, discoveries>>
    /\ UNCHANGED xvars

(* ----------------------- coordination_thread -------------------------- *)
\* Fresh without the test of last_seen
FreshAnyAge(a, t) == a.status = AGENT_STATUS_ONLINE

\* the rows the pass sends a Heartbeat to
Fresh(a, t) == a.status = AGENT_STATUS_ONLINE /\ ~(t - a.last_seen > STALE_AFTER)

\* Swept with a window one second longer
SweptLate(ag, t) ==
    [i \in 1..Len(ag) |->
        IF ag[i].status = AGENT_STATUS_ONLINE /\ t - ag[i].last_seen > STALE_AFTER + 1
        THEN [ag[i] EXCEPT !.status = AGENT_STATUS_OFFLINE]
        ELSE ag[i]]

\* Swept marking the stale rows as failed
SweptToError(ag, t) ==
    [i \in 1..Len(ag) |->
        IF ag[i].status = AGENT_STATUS_ONLINE /\ t - ag[i].last_seen > STALE_AFTER
        THEN [ag[i] EXCEPT !.status = "ERROR"]
        ELSE ag[i]]

\* the registry after the pass: every Online row that is stale goes Offline
Swept(ag, t) ==
    [i \in 1..Len(ag) |->
        IF ag[i].status = AGENT_STATUS_ONLINE /\ t - ag[i].last_seen > STALE_AFTER
        THEN [ag[i] EXCEPT !.status = AGENT_STATUS_OFFLINE]
        ELSE ag[i]]

FormatLoad(x) == ToString(x) \o ".0"

HeartbeatPayload(a) ==
    "load=" \o FormatLoad(a.cpu_load) \o ";memory=" \o FormatLoad(a.memory_usage)
            \o ";tasks=" \o ToString(a.task_queue_size)

RECURSIVE Heartbeats(_, _, _, _)
\* the heartbeats of the pass from row i on, in registry order
Heartbeats(n, ag, i, t) ==
    IF i > Len(ag) THEN << >>
    ELSE IF Fresh(ag[i], t)
         THEN << Sent(ag[i].agent_id, ag[i].port,
                      create_message(MSG_TYPE_HEARTBEAT, n, ag[i].agent_id,
                                     HeartbeatPayload(ag[i]), t, 0)) >>
              \o Heartbeats(n, ag, i + 1, t)
         ELSE Heartbeats(n, ag, i + 1, t)

\* one pass of the coordination loop: Discovery broadcast, staleness sweep, heartbeats.
\* sendto may fail (ok): the datagram then reaches no listener.  Every caller of
\* send_message_to_agent ignores what it returns.
CoordPass(n) ==
    LET discovery_msg == create_message(MSG_TYPE_DISCOVERY, n, "", DiscoveryPayload, now, 0)
    IN
    \E ok \in BOOLEAN :
        /\ net' = IF ok THEN net \cup {Encode(discovery_msg)} ELSE net
        /\ agents' = [agents EXCEPT ![n] = Swept(@, now)]
        /\ out' = << Sent("255.255.255.255", DISCOVERY_PORT, discovery_msg) >>
                   \o Heartbeats(n, agents[n], 1, now)
        /\ UNCHANGED <<now, ticks, tasks, uuids, pc, timeout, task, best_agent,
                       rc, result, submits, discoveries>>
        /\ UNCHANGED xvars

(* ------------------------------ clock --------------------------------- *)
Tick(d) ==
    /\ ticks < MaxTicks
    /\ now' = now + d
    /\ ticks' = ticks + 1
    /\ out' = << >>
    /\ UNCHANGED <<agents, tasks, uuids, net, pc, timeout, task, best_agent,
                   rc, result, submits, discoveries>>
    /\ UNCHANGED xvars

(* --------------------------- the network ------------------------------ *)
\* session ids a TaskResponse from outside may carry: those of the rows submit made, and a foreign one
ResponseSids(n) ==
    {tasks[n][i].session_id : i \in {j \in 1..Len(tasks[n]) : tasks[n][j].assigned_agent # n}}
        \cup {UnknownSid}

\* what a peer running this program puts in a message of the type
PeerPayload(type) ==
    CASE type = MSG_TYPE_DISCOVERY -> DiscoveryPayload
      [] type = MSG_TYPE_HANDSHAKE -> HandshakePayload
      [] type = MSG_TYPE_HEARTBEAT -> "load=0.0;memory=0.0;tasks=0"
      [] OTHER -> ShutdownPayload

MessageTypes ==
    {MSG_TYPE_DISCOVERY, MSG_TYPE_HANDSHAKE, MSG_TYPE_TASK_REQUEST, MSG_TYPE_TASK_RESPONSE,
     MSG_TYPE_HEARTBEAT, MSG_TYPE_SHUTDOWN}

\* the datagrams hosts of the broadcast domain may put on n's discovery port: messages of
\* the given types carrying the given sender ids, a datagram that is no JSON text, and a
\* JSON object with members missing
Injected(n, senders, types) ==
    {[type |-> ty, sender |-> s, recipient |-> n, session |-> 0, timestamp |-> now,
      payload |-> PeerPayload(ty)] :
        ty \in types \ {MSG_TYPE_TASK_REQUEST, MSG_TYPE_TASK_RESPONSE}, s \in senders}
    \cup [type : types \cap {MSG_TYPE_TASK_REQUEST},
          sender : senders, recipient : {n}, session : {ForeignSid}, timestamp : {now}, payload : Descs]
    \cup [type : types \cap {MSG_TYPE_TASK_RESPONSE},
          sender : senders, recipient : {n}, session : ResponseSids(n), timestamp : {now}, payload : Payloads]
    \cup {Garbage, [type |-> MSG_TYPE_HEARTBEAT]}

\* a listener is given at most MaxRequests TaskRequests with one session id
RequestCap(n, d) ==
    (ParseOk(d) /\ parse_message(d).type = MSG_TYPE_TASK_REQUEST)
        => Cardinality({i \in 1..Len(tasks[n]) : tasks[n][i].session_id = parse_message(d).session_id})
               < MaxRequests

\* the listener receives a Discovery broadcast of a node
RecvBroadcast(n) == \E d \in net : Listen(n, d)

\* the listener receives a datagram of another host
RecvInjected(n, senders, types) ==
    \E d \in Injected(n, senders, types) : RequestCap(n, d) /\ Listen(n, d)

\* the listener receives a TaskResponse for the session submit made last
RecvAnswer(n, senders) ==
    \E s \in senders :
        /\ tasks[n] # << >>
        /\ Listen(n, [type |-> MSG_TYPE_TASK_RESPONSE, sender |-> s, recipient |-> n,
                      session |-> tasks[n][Len(tasks[n])].session_id, timestamp |-> now,
                      payload |-> "q"])

\* TaskResponses any host may build: for every session id in the table and an unknown
\* one, under the sender id of the local node, of the peer or of a third host, addressed
\* to the node, to another host or to nobody, with the text the sender's handler builds
AnyResponses(n) ==
    {[type |-> MSG_TYPE_TASK_RESPONSE, sender |-> s, recipient |-> r, session |-> sid,
      timestamp |-> now, payload |-> ProcessedBy(s, "x")] :
        s \in {n, "B", "X"}, r \in {n, "X", ""},
        sid \in {tasks[n][i].session_id : i \in 1..Len(tasks[n])} \cup {UnknownSid}}

\* the listener receives one of them
RecvAnyResponse(n) == \E d \in AnyResponses(n) : Listen(n, d)

\* the listener receives a TaskRequest of another host, which may send it again
RecvRepeated(n, senders) ==
    \E d \in Injected(n, senders, {MSG_TYPE_TASK_REQUEST}) :
        /\ ParseOk(d)
        /\ parse_message(d).type = MSG_TYPE_TASK_REQUEST
        /\ Cardinality({i \in 1..Len(tasks[n]) : tasks[n][i].session_id = parse_message(d).session_id})
               < MaxRepeats
        /\ Listen(n, d)

\* the listener receives the Handshake a peer builds in answer to a Discovery
RecvHandshake(n) ==
    \E m \in Nodes \ {n} :
        Listen(n, Encode(create_message(MSG_TYPE_HANDSHAKE, m, n, HandshakePayload, now, 0)))

\* the listener receives the TaskRequest a submit on another node addressed to n
RecvRelayed(n) ==
    \E m \in Nodes \ {n} : \E i \in 1..Len(tasks[m]) :
        LET row == tasks[m][i]
            created == create_message(MSG_TYPE_TASK_REQUEST, m, n, row.task_description,
                                      row.created, 0)
            d == Encode([created EXCEPT !.session_id = row.session_id])
        IN
        /\ row.assigned_agent = n
        /\ row.status = "submitted"
        /\ RequestCap(n, d)
        /\ Listen(n, d)

(* ----------------------------- initial states ------------------------- *)
\* the row the TaskRequest handler leaves for the i-th request of an earlier host
EarlierRow(n, i) ==
    HandleTaskRequest(<< >>,
                      [type |-> MSG_TYPE_TASK_REQUEST, sender_id |-> "X", recipient_id |-> n,
                       session_id |-> 500 + i, timestamp |-> 1, payload |-> "x"],
                      n, 1)[1]

\* the registry after a Discovery and a Handshake of peer id
KnownOnline(id) ==
    HandleHandshake(
        HandleDiscovery(<< >>, [sender_id |-> id], 1),
        [sender_id |-> id, payload |-> HandshakePayload], 1)

\* node A knows B as Online and has handled count TaskRequests
InitKnown(count) ==
    /\ now = 1
    /\ ticks = 0
    /\ agents = [n \in Nodes |-> IF n = "A" THEN KnownOnline("B") ELSE << >>]
    /\ tasks = [n \in Nodes |->
                    IF n = "A" THEN [i \in 1..count |-> EarlierRow(n, i)] ELSE << >>]
    /\ uuids = [n \in Nodes |-> IF n = "A" THEN count ELSE 0]
    /\ net = {}
    /\ pc = [c \in Callers |-> "idle"]
    /\ timeout = [c \in Callers |-> 0]
    /\ task = [c \in Callers |-> 0]
    /\ best_agent = [c \in Callers |-> 0]
    /\ rc = [c \in Callers |-> 0]
    /\ result = [c \in Callers |-> ""]
    /\ submits = 0
    /\ out = << >>
    /\ discoveries = [n \in Nodes |-> [id \in SenderIds |-> IF n = "A" /\ id = "B" THEN 1 ELSE 0]]
    /\ InitX

\* node A knows B as Online
InitOnline == InitKnown(0)

\* node A knows B as Online and its session table has Room free rows
InitFull == InitKnown(MAX_TASKS - Room)

\* the sender id of the i-th host that sent a Discovery earlier
EarlierId(i) == "F" \o ToString(i)

RECURSIVE EarlierAgents(_)
\* the registry after the Discovery messages of count earlier hosts
EarlierAgents(count) ==
    IF count = 0 THEN << >>
    ELSE HandleDiscovery(EarlierAgents(count - 1), [sender_id |-> EarlierId(count)], 1)

\* node A with one free registry row and up to Spare free session rows: earlier hosts are
\* Discovering, B is Online and was selected by depth submits that timed out, the other
\* session rows come from TaskRequests
InitNearFull ==
    /\ now = 1
    /\ ticks = 0
    /\ \E depth \in {QUEUE_CEILING - 2, QUEUE_CEILING - 1} : \E free \in 1..Spare :
          LET known == HandleHandshake(
                           HandleDiscovery(EarlierAgents(MAX_AI_AGENTS - 2), [sender_id |-> "B"], 1),
                           [sender_id |-> "B", payload |-> HandshakePayload], 1)
              requests == MAX_TASKS - free - depth
          IN
          /\ agents = [n \in Nodes |->
                          IF n = "A"
                          THEN [known EXCEPT ![MAX_AI_AGENTS - 1].task_queue_size = depth]
                          ELSE << >>]
          /\ tasks = [n \in Nodes |->
                         IF n = "A"
                         THEN [i \in 1..depth |-> NewTask(Uuid("A", 2 * i - 1), "x", "B", 1)]
                              \o [i \in 1..requests |-> EarlierRow(n, i)]
                         ELSE << >>]
          /\ uuids = [n \in Nodes |-> IF n = "A" THEN 2 * depth + requests ELSE 0]
    /\ net = {}
    /\ pc = [c \in Callers |-> "idle"]
    /\ timeout = [c \in Callers |-> 0]
    /\ task = [c \in Callers |-> 0]
    /\ best_agent = [c \in Callers |-> 0]
    /\ rc = [c \in Callers |-> 0]
    /\ result = [c \in Callers |-> ""]
    /\ submits = 0
    /\ out = << >>
    /\ discoveries = [n \in Nodes |-> [id \in SenderIds |-> IF n = "A" /\ id = "B" THEN 1 ELSE 0]]
    /\ InitX

\* node A has handled the Discovery messages of MAX_AI_AGENTS - Vacant hosts
InitCrowded ==
    /\ now = 1
    /\ ticks = 0
    /\ agents = [n \in Nodes |-> IF n = "A" THEN EarlierAgents(MAX_AI_AGENTS - Vacant) ELSE << >>]
    /\ tasks = [n \in Nodes |-> << >>]
    /\ uuids = [n \in Nodes |-> 0]
    /\ net = {}
    /\ pc = [c \in Callers |-> "idle"]
    /\ timeout = [c \in Callers |-> 0]
    /\ task = [c \in Callers |-> 0]
    /\ best_agent = [c \in Callers |-> 0]
    /\ rc = [c \in Callers |-> 0]
    /\ result = [c \in Callers |-> ""]
    /\ submits = 0
    /\ out = << >>
    /\ discoveries = [n \in Nodes |-> [id \in SenderIds |-> 0]]
    /\ InitX

\* the ids of the registry rows of InitSelect, in registry order
SelIds == << "B", "X", "Y", "Z" >>
Depths == 0..QUEUE_CEILING

\* registry rows a run can leave: a row that never was Online was never selected
SelRow(i, status, depth) ==
    [NewAgent(SelIds[i], i, 1) EXCEPT
        !.status = status,
        !.last_seen = IF status = AGENT_STATUS_OFFLINE THEN 1 ELSE STALE_AFTER + 2,
        !.task_queue_size = depth,
        !.capabilities = IF status = AGENT_STATUS_DISCOVERING THEN "" ELSE HandshakePayload]

RECURSIVE EarlierSubmits(_, _, _)
\* the rows of the submits that raised the queue depths of ag, from row i on; k rows precede
EarlierSubmits(ag, i, k) ==
    IF i > Len(ag) THEN << >>
    ELSE [j \in 1..ag[i].task_queue_size |->
             NewTask(Uuid("A", 2 * (k + j) - 1), "x", ag[i].agent_id, 1)]
         \o EarlierSubmits(ag, i + 1, k + ag[i].task_queue_size)

\* node A with a registry of up to SelRows rows of any status and depth, after the
\* submits (all timed out) that made the depths
InitSelect ==
    /\ now = STALE_AFTER + 2
    /\ ticks = 1
    /\ \E count \in 0..SelRows :
       \E status \in [1..count -> {AGENT_STATUS_OFFLINE, AGENT_STATUS_DISCOVERING, AGENT_STATUS_ONLINE}] :
       \E depth \in [1..count -> Depths] :
           /\ \A i \in 1..count : status[i] = AGENT_STATUS_DISCOVERING => depth[i] = 0
           /\ LET ag == [i \in 1..count |-> SelRow(i, status[i], depth[i])]
                  tk == EarlierSubmits(ag, 1, 0)
              IN
              /\ agents = [n \in Nodes |-> IF n = "A" THEN ag ELSE << >>]
              /\ tasks = [n \in Nodes |-> IF n = "A" THEN tk ELSE << >>]
              /\ uuids = [n \in Nodes |-> IF n = "A" THEN 2 * Len(tk) ELSE 0]
    /\ net = {}
    /\ pc = [c \in Callers |-> "idle"]
    /\ timeout = [c \in Callers |-> 0]
    /\ task = [c \in Callers |-> 0]
    /\ best_agent = [c \in Callers |-> 0]
    /\ rc = [c \in Callers |-> 0]
    /\ result = [c \in Callers |-> ""]
    /\ submits = 0
    /\ out = << >>
    /\ discoveries = [n \in Nodes |-> [id \in SenderIds |-> 0]]
    /\ InitX

(* ---------------------- the threads, lock by lock --------------------- *)
\* the variables of the tables and of the callers of submit
tables == <<now, ticks, agents, tasks, uuids, net, discoveries>>
locals == <<pc, timeout, task, best_agent, rc, result, submits>>

Free(lock) == mutex[lock] = ""

\* cleanup has freed g_ai_system
Freed == at["stopper"] = "returned"

\* HandlerLocks taking the session lock first for the task messages
HandlerLocksSessionFirst(type) ==
    IF type \in {MSG_TYPE_TASK_REQUEST, MSG_TYPE_TASK_RESPONSE}
    THEN << "tasks_mutex", "agents_mutex" >>
    ELSE << "agents_mutex" >>

\* the locks handle_message takes for a message of the type, in the order it takes them;
\* it holds them all until it is done
HandlerLocks(type) ==
    IF type \in {MSG_TYPE_TASK_REQUEST, MSG_TYPE_TASK_RESPONSE}
    THEN << "agents_mutex", "tasks_mutex" >>
    ELSE << "agents_mutex" >>

\* the lock the listener is about to take for its msg ("" when it holds them all)
ListenerWants ==
    LET locks == HandlerLocks(lmsg.type)
        missing == {i \in 1..Len(locks) : mutex[locks[i]] # "listener"}
    IN
    IF missing = {} THEN ""
    ELSE locks[CHOOSE i \in missing : \A j \in missing : i <= j]

\* the locks with those of thread t released
Released(t) == [l \in DOMAIN mutex |-> IF mutex[l] = t THEN "" ELSE mutex[l]]

\* the datagrams that may arrive at n's discovery port while its threads run
ThreadDatagrams(n) ==
    {d \in Injected(n, {"X"}, {MSG_TYPE_DISCOVERY, MSG_TYPE_TASK_REQUEST, MSG_TYPE_TASK_RESPONSE}) :
        (ParseOk(d) /\ parse_message(d).type = MSG_TYPE_TASK_RESPONSE)
            => parse_message(d).payload = "q"}
        \cup net

\* discovery_thread: the loop test
ListenerCheck ==
    /\ at["listener"] = "check"
    /\ at' = [at EXCEPT !["listener"] = IF running = 1 THEN "recv" ELSE "exited"]
    /\ out' = << >>
    /\ UNCHANGED <<tables, locals, codec, running, mutex, lmsg, cursor, seen, report, booted>>

\* the members parse_message copies with strncpy or measures with strlen
StringMembers == {"sender", "recipient", "session", "payload"}

\* a JSON object in which a member that parse_message reads as a string is present with
\* the value null: json_object_object_get_ex finds it and json_object_get_string
\* returns NULL
NullMember(d) == ParseOk(d) /\ "nulls" \in DOMAIN d /\ d.nulls \cap StringMembers # {}

\* the datagram d with the member given the value null
WithNull(d, member) ==
    [k \in (DOMAIN d \ {member}) \cup {"nulls"} |-> IF k = "nulls" THEN {member} ELSE d[k]]

\* Discovery datagrams for n, each with one null member
NullDatagrams(n) ==
    {WithNull([type |-> MSG_TYPE_DISCOVERY, sender |-> "X", recipient |-> n, session |-> 0,
               timestamp |-> now, payload |-> DiscoveryPayload], member) :
        member \in StringMembers \cup {"type", "timestamp"}}

\* discovery_thread: recvfrom returns the datagram d; parse_message and the sender test.
\* strncpy and strlen on the NULL of a null member read through address 0: the process
\* is killed or, where that page reads as zeros, the member stays empty
ListenerRecv(n, d) ==
    /\ at["listener"] = "recv"
    /\ RequestCap(n, d)
    /\ \/ /\ NullMember(d)
          /\ lmsg' = NoMsg
          /\ at' = [at EXCEPT !["listener"] = "crashed"]
       \/ IF ParseOk(d) /\ Dispatched(n, parse_message(d))
          THEN /\ lmsg' = parse_message(d)
               /\ at' = [at EXCEPT !["listener"] = "acquire"]
          ELSE /\ lmsg' = NoMsg
               /\ at' = [at EXCEPT !["listener"] = "check"]
    /\ out' = << >>
    /\ UNCHANGED <<tables, locals, codec, running, mutex,
                   cursor, seen, report, booted>>

\* handle_message: pthread_mutex_lock on the next lock of the message's type
ListenerAcquire ==
    /\ at["listener"] = "acquire"
    /\ ListenerWants # ""
    /\ Free(ListenerWants)
    /\ mutex' = [mutex EXCEPT ![ListenerWants] = "listener"]
    /\ at' = [at EXCEPT !["listener"] =
                 IF \A i \in 1..Len(HandlerLocks(lmsg.type)) :
                        mutex'[HandlerLocks(lmsg.type)[i]] = "listener"
                 THEN "handle" ELSE "acquire"]
    /\ out' = << >>
    /\ UNCHANGED <<tables, locals, codec, running, lmsg, cursor, seen, report, booted>>

\* handle_message under its locks: the case of the message's type and the unlocks; for a
\* Discovery of an unknown sender, agent_count++ alone
ListenerHandle(n) ==
    /\ at["listener"] = "handle"
    /\ IF /\ lmsg.type = MSG_TYPE_DISCOVERY
          /\ FindAgent(agents[n], lmsg.sender_id) = 0
          /\ Len(agents[n]) < MAX_AI_AGENTS
       THEN /\ agents' = [agents EXCEPT ![n] = Append(@, ZeroAgent)]
            /\ at' = [at EXCEPT !["listener"] = "fill"]
            /\ UNCHANGED <<tasks, uuids, mutex, lmsg>>
       ELSE /\ agents' = [agents EXCEPT ![n] = HandledAgents(@, lmsg, now)]
            /\ tasks' = [tasks EXCEPT ![n] = HandledTasks(@, lmsg, n, now)]
            /\ uuids' = [uuids EXCEPT ![n] = @ + HandledUuids(tasks[n], lmsg)]
            /\ mutex' = Released("listener")
            /\ lmsg' = NoMsg
            /\ at' = [at EXCEPT !["listener"] = "check"]
    /\ out' = << >>
    /\ UNCHANGED <<now, ticks, net, discoveries, locals, codec, running, cursor, seen, report, booted>>

\* the Discovery case after agent_count++: the new row's id, port, status and last_seen
ListenerFill(n) ==
    /\ at["listener"] = "fill"
    /\ agents' = [agents EXCEPT ![n][Len(agents[n])] =
                     NewAgent(lmsg.sender_id, Len(agents[n]), now)]
    /\ mutex' = Released("listener")
    /\ lmsg' = NoMsg
    /\ at' = [at EXCEPT !["listener"] = "check"]
    /\ out' = << >>
    /\ UNCHANGED <<now, ticks, tasks, uuids, net, discoveries, locals, codec, running,
                   cursor, seen, report, booted>>

\* coordination_thread: the loop test
CoordCheck ==
    /\ at["coordinator"] = "check"
    /\ at' = [at EXCEPT !["coordinator"] = IF running = 1 THEN "broadcast" ELSE "exited"]
    /\ out' = << >>
    /\ UNCHANGED <<tables, locals, codec, running, mutex, lmsg, cursor, seen, report, booted>>

\* coordination_thread: the Discovery broadcast
CoordBroadcast(n) ==
    LET discovery_msg == create_message(MSG_TYPE_DISCOVERY, n, "", DiscoveryPayload, now, 0)
    IN
    /\ at["coordinator"] = "broadcast"
    /\ \E ok \in BOOLEAN : net' = IF ok THEN net \cup {Encode(discovery_msg)} ELSE net
    /\ out' = << Sent("255.255.255.255", DISCOVERY_PORT, discovery_msg) >>
    /\ at' = [at EXCEPT !["coordinator"] = "sweep"]
    /\ UNCHANGED <<now, ticks, agents, tasks, uuids, discoveries, locals, codec, running,
                   mutex, lmsg, cursor, seen, report, booted>>

\* coordination_thread: the lock and the loop over the rows.  With a heartbeat to send the
\* thread is then inside send_message_to_agent's connect and send, holding the lock;
\* without one it goes on to the unlock at once
CoordSweep(n) ==
    /\ at["coordinator"] = "sweep"
    /\ Free("agents_mutex")
    /\ agents' = [agents EXCEPT ![n] = Swept(@, now)]
    /\ out' = Heartbeats(n, agents[n], 1, now)
    /\ IF Heartbeats(n, agents[n], 1, now) # << >>
       THEN /\ mutex' = [mutex EXCEPT !["agents_mutex"] = "coordinator"]
            /\ at' = [at EXCEPT !["coordinator"] = "sending"]
            /\ UNCHANGED cursor
       ELSE /\ at' = [at EXCEPT !["coordinator"] = "display"]
            /\ cursor' = 1
            /\ UNCHANGED mutex
    /\ UNCHANGED <<now, ticks, tasks, uuids, net, discoveries, locals, codec, running,
                   lmsg, seen, report, booted>>

\* coordination_thread: the sends have returned; the unlock
CoordSent ==
    /\ at["coordinator"] = "sending"
    /\ mutex' = Released("coordinator")
    /\ at' = [at EXCEPT !["coordinator"] = "display"]
    /\ cursor' = 1
    /\ out' = << >>
    /\ UNCHANGED <<tables, locals, codec, running, lmsg, seen, report, booted>>

\* coordination_thread: one turn of the health display loop of a node started with a
\* display, then sleep(10)
CoordDisplay(n) ==
    /\ at["coordinator"] = "display"
    /\ IF cursor <= Len(agents[n])
       THEN /\ seen' = agents[n][cursor]
            /\ cursor' = cursor + 1
            /\ UNCHANGED at
       ELSE /\ seen' = NoRow
            /\ cursor' = 0
            /\ at' = [at EXCEPT !["coordinator"] = "check"]
    /\ out' = << >>
    /\ UNCHANGED <<tables, locals, codec, running, mutex, lmsg, report, booted>>

\* get_status: the header with agent_count
ReportCount(n) ==
    /\ at["reporter"] = "idle"
    /\ ~Freed
    /\ report' = [agent_count |-> Len(agents[n]), agents |-> 0, tasks |-> 0]
    /\ at' = [at EXCEPT !["reporter"] = "agents"]
    /\ out' = << >>
    /\ UNCHANGED <<tables, locals, codec, running, mutex, lmsg, cursor, seen, booted>>

\* get_status: the peer rows, from lock to unlock
ReportAgents(n) ==
    /\ at["reporter"] = "agents"
    /\ ~Freed
    /\ Free("agents_mutex")
    /\ report' = [report EXCEPT !.agents = Len(agents[n])]
    /\ at' = [at EXCEPT !["reporter"] = "tasks"]
    /\ out' = << >>
    /\ UNCHANGED <<tables, locals, codec, running, mutex, lmsg, cursor, seen, booted>>

\* get_status: the session rows, from lock to unlock, and the return
ReportTasks(n) ==
    /\ at["reporter"] = "tasks"
    /\ ~Freed
    /\ Free("tasks_mutex")
    /\ report' = [report EXCEPT !.tasks = Len(tasks[n])]
    /\ at' = [at EXCEPT !["reporter"] = "idle"]
    /\ out' = << >>
    /\ UNCHANGED <<tables, locals, codec, running, mutex, lmsg, cursor, seen, booted>>

\* submit: the call, up to the lock of the registry
CallerEnter(c) ==
    /\ pc[c] \in {"idle", "done"}
    /\ submits < MaxSubmits
    /\ ~Freed
    /\ pc' = [pc EXCEPT ![c] = "wait_agents"]
    /\ out' = << >>
    /\ UNCHANGED <<tables, timeout, task, best_agent, rc, result, submits, xvars>>

\* Selecting without the hold of the registry lock
SelectingUnlocked(c) ==
    /\ pc[c] = "wait_agents"
    /\ Free("agents_mutex")
    /\ IF BestAgent(agents[Home(c)]) = 0
       THEN Submitted(c) /\ UNCHANGED xvars
       ELSE /\ pc' = [pc EXCEPT ![c] = "wait_tasks"]
            /\ best_agent' = [best_agent EXCEPT ![c] = BestAgent(agents[Home(c)])]
            /\ out' = << >>
            /\ UNCHANGED <<tables, timeout, task, rc, result, submits, xvars>>

\* submit: the selection loop under the registry lock; without a peer, unlock and return
Selecting(c) ==
    /\ pc[c] = "wait_agents"
    /\ Free("agents_mutex")
    /\ IF BestAgent(agents[Home(c)]) = 0
       THEN Submitted(c) /\ UNCHANGED xvars
       ELSE /\ mutex' = [mutex EXCEPT !["agents_mutex"] = c]
            /\ pc' = [pc EXCEPT ![c] = "wait_tasks"]
            /\ best_agent' = [best_agent EXCEPT ![c] = BestAgent(agents[Home(c)])]
            /\ out' = << >>
            /\ UNCHANGED <<tables, timeout, task, rc, result, submits, codec, running, at,
                           lmsg, cursor, seen, report, booted>>

CallerSelect(c) == ~Freed /\ Selecting(c)

\* submit: under both locks, the capacity test, the row, the send, the increment; unlock
Allocating(c) ==
    /\ pc[c] = "wait_tasks"
    /\ Free("tasks_mutex")
    /\ Submitted(c)
    /\ mutex' = Released(c)
    /\ UNCHANGED <<codec, running, at, lmsg, cursor, seen, report, booted>>

CallerAlloc(c) == ~Freed /\ Allocating(c)

\* submit: one turn of the polling loop, from lock to unlock
Polling(c) ==
    /\ Free("tasks_mutex")
    /\ Poll(c)

CallerTurn(c) == ~Freed /\ Polling(c)

\* the first MaxPolls turns of the polling loop
CallerPoll(c) ==
    /\ POLL_TIMEOUT - timeout[c] < MaxPolls
    /\ CallerTurn(c)

\* submit called before init or after cleanup: g_ai_system is NULL, -1 is returned and
\* *result is not written
Refused(c) ==
    /\ pc[c] \in {"idle", "done"}
    /\ submits < MaxSubmits
    /\ Freed
    /\ rc' = [rc EXCEPT ![c] = -1]
    /\ pc' = [pc EXCEPT ![c] = "done"]
    /\ task' = [task EXCEPT ![c] = 0]
    /\ best_agent' = [best_agent EXCEPT ![c] = 0]
    /\ submits' = submits + 1
    /\ out' = << >>
    /\ UNCHANGED <<tables, timeout, result, xvars>>

\* what strdup returns for a result read from freed memory
StrayText == "?"

\* a caller inside submit once cleanup has destroyed the locks, freed the system and set
\* g_ai_system to NULL: its next lock and read go through the NULL pointer or, with the
\* pointer kept in a register, into freed memory.  The process is killed, or the memory
\* still holds what it held and the step is the one of a live system, or the status read
\* compares equal to "completed" and some text is returned as the result
Dangling(c) ==
    /\ Freed
    /\ pc[c] \in {"wait_agents", "wait_tasks", "poll"}
    /\ \/ /\ pc' = [pc EXCEPT ![c] = "crashed"]
          /\ out' = << >>
          /\ UNCHANGED <<tables, timeout, task, best_agent, rc, result, submits, xvars>>
       \/ Selecting(c)
       \/ Allocating(c)
       \/ Polling(c)
       \/ /\ pc[c] = "poll"
          /\ result' = [result EXCEPT ![c] = StrayText]
          /\ rc' = [rc EXCEPT ![c] = 0]
          /\ pc' = [pc EXCEPT ![c] = "done"]
          /\ out' = << >>
          /\ UNCHANGED <<tables, timeout, task, best_agent, submits, xvars>>

\* cleanup: running = 0
StopFlag ==
    /\ at["stopper"] = "idle"
    /\ running' = 0
    /\ at' = [at EXCEPT !["stopper"] = "send"]
    /\ out' = << >>
    /\ UNCHANGED <<tables, locals, codec, mutex, lmsg, cursor, seen, report, booted>>

\* Shutdowns sending to every row
RECURSIVE ShutdownsToAll(_, _, _, _)
ShutdownsToAll(n, ag, i, t) ==
    IF i > Len(ag) THEN << >>
    ELSE << Sent(ag[i].agent_id, ag[i].port,
                 create_message(MSG_TYPE_SHUTDOWN, n, ag[i].agent_id, ShutdownPayload, t, 0)) >>
         \o ShutdownsToAll(n, ag, i + 1, t)

RECURSIVE Shutdowns(_, _, _, _)
\* the Shutdown messages of cleanup's loop from row i on, in registry order
Shutdowns(n, ag, i, t) ==
    IF i > Len(ag) THEN << >>
    ELSE IF ag[i].status = AGENT_STATUS_ONLINE
         THEN << Sent(ag[i].agent_id, ag[i].port,
                      create_message(MSG_TYPE_SHUTDOWN, n, ag[i].agent_id, ShutdownPayload, t, 0)) >>
              \o Shutdowns(n, ag, i + 1, t)
         ELSE Shutdowns(n, ag, i + 1, t)

\* cleanup: the Shutdown loop, from lock to unlock
StopSend(n) ==
    /\ at["stopper"] = "send"
    /\ Free("agents_mutex")
    /\ out' = Shutdowns(n, agents[n], 1, now)
    /\ at' = [at EXCEPT !["stopper"] = "join_listener"]
    /\ UNCHANGED <<tables, locals, codec, running, mutex, lmsg, cursor, seen, report, booted>>

\* cleanup: pthread_join(discovery_thread) returns
StopJoinListener ==
    /\ at["stopper"] = "join_listener"
    /\ at["listener"] = "exited"
    /\ at' = [at EXCEPT !["stopper"] = "join_coordinator"]
    /\ out' = << >>
    /\ UNCHANGED <<tables, locals, codec, running, mutex, lmsg, cursor, seen, report, booted>>

\* cleanup: pthread_join(coordination_thread) returns; the locks are destroyed, the
\* system is freed
StopJoinCoordinator ==
    /\ at["stopper"] = "join_coordinator"
    /\ at["coordinator"] = "exited"
    /\ at' = [at EXCEPT !["stopper"] = "returned"]
    /\ out' = << >>
    /\ UNCHANGED <<tables, locals, codec, running, mutex, lmsg, cursor, seen, report, booted>>

(* ------------------------ anbs_distributed_ai_init -------------------- *)
\* Start generating an identity on every call
StartAnew(n) ==
    /\ booted.calls < MaxStarts
    /\ booted' = [booted EXCEPT !.local_agent_id = @ + 1, !.rc = 0, !.calls = @ + 1]
    /\ IF Freed
       THEN /\ agents' = [agents EXCEPT ![n] = << >>]
            /\ tasks' = [tasks EXCEPT ![n] = << >>]
            /\ running' = 1
            /\ mutex' = [agents_mutex |-> "", tasks_mutex |-> ""]
            /\ at' = [at EXCEPT !["listener"] = "check", !["coordinator"] = "check",
                                !["stopper"] = "idle"]
            /\ lmsg' = NoMsg
            /\ cursor' = 0
            /\ seen' = NoRow
       ELSE UNCHANGED <<agents, tasks, running, mutex, at, lmsg, cursor, seen>>
    /\ out' = << >>
    /\ UNCHANGED <<now, ticks, uuids, net, discoveries, locals, codec, report>>

\* one call of anbs_distributed_ai_init.  With a system in place it returns 0 at once.
\* Without one (after cleanup) calloc gives a zeroed system, or fails (ok false); the call
\* generates the identity, sets running, initialises the mutexes and creates the two
\* threads.
Start(n) ==
    /\ booted.calls < MaxStarts
    /\ IF ~Freed
       THEN /\ booted' = [booted EXCEPT !.rc = 0, !.calls = @ + 1]
            /\ UNCHANGED <<agents, tasks, running, mutex, at, lmsg, cursor, seen>>
       ELSE \E ok \in BOOLEAN :
            IF ok
            THEN /\ booted' = [local_agent_id |-> booted.local_agent_id + 1,
                               threads |-> booted.threads + 2,
                               rc |-> 0, calls |-> booted.calls + 1]
                 /\ agents' = [agents EXCEPT ![n] = << >>]
                 /\ tasks' = [tasks EXCEPT ![n] = << >>]
                 /\ running' = 1
                 /\ mutex' = [agents_mutex |-> "", tasks_mutex |-> ""]
                 /\ at' = [at EXCEPT !["listener"] = "check", !["coordinator"] = "check",
                                     !["stopper"] = "idle"]
                 /\ lmsg' = NoMsg
                 /\ cursor' = 0
                 /\ seen' = NoRow
            ELSE /\ booted' = [booted EXCEPT !.rc = -1, !.calls = @ + 1]
                 /\ UNCHANGED <<agents, tasks, running, mutex, at, lmsg, cursor, seen>>
    /\ out' = << >>
    /\ UNCHANGED <<now, ticks, uuids, net, discoveries, locals, codec, report>>

(* ----------------------- one message's way --------------------------- *)
RECURSIVE Text(_)
\* a text of len bytes
Text(len) ==
    IF len = 0 THEN ""
    ELSE IF len % 2 = 1 THEN "x" \o Text(len - 1)
    ELSE LET half == Text(len \div 2) IN half \o half

\* the payload lengths around the size of the payload member
PayloadSizes ==
    {0, 1, MAX_MESSAGE_SIZE - 2, MAX_MESSAGE_SIZE - 1, MAX_MESSAGE_SIZE, MAX_MESSAGE_SIZE + 1}

\* the recipients a caller of create_message names: NULL (the empty text) or a peer
Recipients == {"", "B"}

\* a caller is about to build a message
InitCodec ==
    /\ InitTables
    /\ InitT
    /\ \E type \in MessageTypes : \E recipient \in Recipients : \E size \in PayloadSizes :
           codec = [stage |-> "given", type |-> type, recipient |-> recipient,
                    payload |-> Text(size)]

\* the sender calls create_message
Build(n) ==
    /\ codec.stage = "given"
    /\ codec' = [stage |-> "built",
                 given |-> codec,
                 msg |-> create_message(codec.type, n, codec.recipient, codec.payload,
                                        now, Uuid(n, uuids[n] + 1))]
    /\ UNCHANGED <<now, ticks, agents, tasks, uuids, net, pc, timeout, task, best_agent,
                   rc, result, submits, out, discoveries>>
    /\ UNCHANGED tvars

\* send_message_to_agent writes the JSON text
Write ==
    /\ codec.stage = "built"
    /\ codec' = [stage |-> "written", given |-> codec.given, msg |-> codec.msg,
                 json |-> Encode(codec.msg)]
    /\ UNCHANGED <<now, ticks, agents, tasks, uuids, net, pc, timeout, task, best_agent,
                   rc, result, submits, out, discoveries>>
    /\ UNCHANGED tvars

\* the receiver calls parse_message on the text
Parse ==
    /\ codec.stage = "written"
    /\ ParseOk(codec.json)
    /\ codec' = [stage |-> "parsed", given |-> codec.given, msg |-> codec.msg,
                 parsed |-> parse_message(codec.json)]
    /\ UNCHANGED <<now, ticks, agents, tasks, uuids, net, pc, timeout, task, best_agent,
                   rc, result, submits, out, discoveries>>
    /\ UNCHANGED tvars

(* --------------------------- specifications --------------------------- *)
Local == "A"
\* the clock steps: past the staleness window
Deltas == {STALE_AFTER + 1}
SessionTypes == {MSG_TYPE_TASK_REQUEST, MSG_TYPE_TASK_RESPONSE}

\* one node with its callers, and the hosts around it
Next ==
    \/ \E c \in Solo : Submit(c)
    \/ \E c \in Solo : Poll(c)
    \/ RecvBroadcast(Local)
    \/ RecvInjected(Local, {"B"}, MessageTypes)
    \/ CoordPass(Local)
    \/ \E d \in Deltas : Tick(d)

Spec == Init /\ [][Next]_vars

\* one message from create_message through send_message_to_agent to parse_message
NextCodec ==
    \/ Build(Local)
    \/ Write
    \/ Parse

SpecCodec == InitCodec /\ [][NextCodec]_vars

\* the steps of the listener thread
ListenerStep ==
    \/ ListenerCheck
    \/ \E d \in ThreadDatagrams(Local) : ListenerRecv(Local, d)
    \/ ListenerAcquire
    \/ ListenerHandle(Local)
    \/ ListenerFill(Local)

\* the steps of the coordination thread
CoordStep ==
    \/ CoordCheck
    \/ CoordBroadcast(Local)
    \/ CoordSweep(Local)
    \/ CoordSent
    \/ CoordDisplay(Local)

\* the steps of a thread in cleanup
StopStep ==
    \/ StopFlag
    \/ StopSend(Local)
    \/ StopJoinListener
    \/ StopJoinCoordinator

\* the threads of a node that knows a peer as Online: the two loops, a caller of submit,
\* a caller of get_status and a caller of cleanup, and the hosts around the node
NextThreads ==
    \/ ListenerStep
    \/ CoordStep
    \/ ReportCount(Local)
    \/ ReportAgents(Local)
    \/ ReportTasks(Local)
    \/ \E c \in Solo : CallerEnter(c)
    \/ \E c \in Solo : CallerSelect(c)
    \/ \E c \in Solo : CallerAlloc(c)
    \/ \E c \in Solo : CallerPoll(c)
    \/ StopStep

SpecThreads == InitOnline /\ [][NextThreads]_vars

\* the two loops of a node that knows a peer as Online, and a caller of cleanup
NextStop == ListenerStep \/ CoordStep \/ StopStep

SpecStop == InitOnline /\ [][NextStop]_vars

\* every datagram a host can put on the discovery port of n
DecodeDatagrams(n) == Injected(n, {"X", "Y"}, MessageTypes) \cup NullDatagrams(n)

\* the listener of a node that knows a peer as Online, on every kind of datagram
NextDecode ==
    \/ ListenerCheck
    \/ \E d \in DecodeDatagrams(Local) : ListenerRecv(Local, d)
    \/ ListenerAcquire
    \/ ListenerHandle(Local)
    \/ ListenerFill(Local)

SpecDecode == InitOnline /\ [][NextDecode]_vars

\* the datagrams that add a row: Discovery from two unknown hosts, a TaskRequest
PairDatagrams(n) ==
    {d \in Injected(n, {"X", "Y"}, {MSG_TYPE_DISCOVERY, MSG_TYPE_TASK_REQUEST}) :
        /\ ParseOk(d)
        /\ parse_message(d).type = MSG_TYPE_TASK_REQUEST => parse_message(d).sender_id = "X"}

\* two callers of submit and the listener on tables that are nearly full
NextPair ==
    \/ ListenerCheck
    \/ \E d \in PairDatagrams(Local) : ListenerRecv(Local, d)
    \/ ListenerAcquire
    \/ ListenerHandle(Local)
    \/ ListenerFill(Local)
    \/ \E c \in Callers : CallerEnter(c)
    \/ \E c \in Callers : CallerSelect(c)
    \/ \E c \in Callers : CallerAlloc(c)
    \/ \E c \in Callers : CallerPoll(c)

SpecPair == InitNearFull /\ [][NextPair]_vars

\* the two loops and cleanup, with calls of init before and after it
NextStart == ListenerStep \/ CoordStep \/ StopStep \/ Start(Local)

SpecStart == InitOnline /\ [][NextStart]_vars

\* the two loops, a caller of submit with its whole polling window, and a caller of
\* cleanup
NextLifecycle ==
    \/ ListenerStep
    \/ CoordStep
    \/ StopStep
    \/ \E c \in Solo : CallerEnter(c)
    \/ \E c \in Solo : CallerSelect(c)
    \/ \E c \in Solo : CallerAlloc(c)
    \/ \E c \in Solo : CallerTurn(c)
    \/ \E c \in Solo : Refused(c)
    \/ \E c \in Solo : Dangling(c)

SpecLifecycle == InitOnline /\ [][NextLifecycle]_vars

\* a thread that can take a step takes it: a sleep ends, a free lock is taken, a join
\* returns once the joined thread is gone; nothing makes a datagram arrive
SpecStopFair ==
    /\ SpecStop
    /\ WF_vars(ListenerCheck)
    /\ WF_vars(ListenerAcquire)
    /\ WF_vars(ListenerHandle(Local))
    /\ WF_vars(ListenerFill(Local))
    /\ WF_vars(CoordStep)
    /\ WF_vars(StopSend(Local))
    /\ WF_vars(StopJoinListener)
    /\ WF_vars(StopJoinCoordinator)

\* the callers and the listener of a node that knows a peer as Online, and the task
\* messages hosts send it
NextSubmit ==
    \/ \E c \in Solo : Submit(c)
    \/ \E c \in Solo : Poll(c)
    \/ RecvInjected(Local, {"B"}, SessionTypes)
    \/ \E d \in Deltas : Tick(d)

SpecSubmit == InitOnline /\ [][NextSubmit]_vars

\* the callers and the listener of a node that knows a peer as Online, and the
\* TaskRequests of hosts that repeat them
NextRepeats ==
    \/ \E c \in Solo : Submit(c)
    \/ \E c \in Solo : Poll(c)
    \/ RecvRepeated(Local, {"B", "X"})

SpecRepeats == InitOnline /\ [][NextRepeats]_vars

\* the listener and the coordinator of one node, and the hosts around it
NextListener ==
    \/ RecvBroadcast(Local)
    \/ RecvInjected(Local, {"A", "B"}, MessageTypes)
    \/ CoordPass(Local)
    \/ \E d \in Deltas : Tick(d)

SpecListener == Init /\ [][NextListener]_vars

\* the messages whose handling writes the registry, and Shutdown
RegistryTypes == {MSG_TYPE_DISCOVERY, MSG_TYPE_HANDSHAKE, MSG_TYPE_HEARTBEAT, MSG_TYPE_SHUTDOWN}

\* everything that writes a registry row or sends to a peer
NextStatus ==
    \/ \E c \in Solo : Submit(c)
    \/ \E c \in Solo : Poll(c)
    \/ RecvInjected(Local, {"B", "X"}, RegistryTypes)
    \/ CoordPass(Local)
    \/ \E d \in Deltas : Tick(d)

SpecStatus == Init /\ [][NextStatus]_vars

\* the same, the two threads and the hosts going on for as long as they have a step
SpecListenerFair == SpecListener /\ WF_vars(NextListener)

\* the coordinator of a node whose registry is nearly full, and the Discovery and
\* Handshake messages of the hosts around it
NextCrowded ==
    \/ RecvInjected(Local, SenderIds \ {Local}, {MSG_TYPE_DISCOVERY, MSG_TYPE_HANDSHAKE})
    \/ CoordPass(Local)
    \/ \E d \in Deltas : Tick(d)

SpecCrowded == InitCrowded /\ [][NextCrowded]_vars

\* the same, the session table being nearly full
SpecFull == InitFull /\ [][NextSubmit]_vars

\* submit on every registry
NextSelect ==
    \/ \E c \in Solo : Submit(c)
    \/ \E c \in Solo : Poll(c)

SpecSelect == InitSelect /\ [][NextSelect]_vars

\* submit on every registry, with the answers and the Heartbeats of the peers
NextDepth ==
    \/ \E c \in Solo : Submit(c)
    \/ \E c \in Solo : Poll(c)
    \/ RecvAnswer(Local, {"B"})
    \/ RecvInjected(Local, {"B", "X"}, {MSG_TYPE_HEARTBEAT})

SpecDepth == InitSelect /\ [][NextDepth]_vars

\* a submit, TaskRequests that repeat a session id, and TaskResponses from anyone
NextAnyone ==
    \/ \E c \in Solo : Submit(c)
    \/ \E c \in Solo : Poll(c)
    \/ RecvRepeated(Local, {"X"})
    \/ RecvAnyResponse(Local)

SpecAnyone == InitOnline /\ [][NextAnyone]_vars

\* Discovery messages of known and unknown senders on every registry, around a submit
NextRefresh ==
    \/ \E c \in Solo : Submit(c)
    \/ \E c \in Solo : Poll(c)
    \/ RecvInjected(Local, {"B", "X"}, {MSG_TYPE_DISCOVERY})

SpecRefresh == InitSelect /\ [][NextRefresh]_vars

\* the registries of InitSelect without an Online row: every peer is Discovering, or was
\* demoted by a coordination pass
InitLapsed ==
    /\ InitSelect
    /\ \A i \in 1..Len(agents["A"]) : agents["A"][i].status # AGENT_STATUS_ONLINE

\* Handshakes and Heartbeats of known and unknown senders on registries without an
\* Online row, around a submit
NextRevive ==
    \/ \E c \in Solo : Submit(c)
    \/ \E c \in Solo : Poll(c)
    \/ RecvInjected(Local, {"B", "X"}, {MSG_TYPE_HANDSHAKE, MSG_TYPE_HEARTBEAT})

SpecRevive == InitLapsed /\ [][NextRevive]_vars

\* coordination passes over every registry, between submits
NextTelemetry ==
    \/ \E c \in Solo : Submit(c)
    \/ \E c \in Solo : Poll(c)
    \/ CoordPass(Local)

SpecTelemetry == InitSelect /\ [][NextTelemetry]_vars

\* two nodes in one broadcast domain: what they send reaches the other, and so does
\* the Handshake each builds in answer to a Discovery
NextTwoNodes ==
    \/ \E c \in Solo : Submit(c)
    \/ \E c \in Solo : Poll(c)
    \/ \E n \in Nodes : CoordPass(n)
    \/ \E n \in Nodes : RecvBroadcast(n)
    \/ \E n \in Nodes : RecvHandshake(n)
    \/ \E n \in Nodes : RecvRelayed(n)

SpecTwoNodes == Init /\ [][NextTwoNodes]_vars

\* two nodes in one broadcast domain and nothing else: the datagrams on the discovery
\* port are those the two coordinators broadcast
NextDomain ==
    \/ \E n \in Nodes : CoordPass(n)
    \/ \E n \in Nodes : RecvBroadcast(n)
    \/ \E d \in Deltas : Tick(d)

\* a pass of n's coordination loop whose broadcast goes out
Announces(n) == CoordPass(n) /\ \E d \in net' : d.sender = n /\ d.timestamp = now

\* n's listener receives a broadcast of m
Hears(n, m) == \E d \in net : d.sender = m /\ Listen(n, d)

\* reliable delivery: each coordinator goes on passing and its broadcasts go out, and
\* each listener goes on receiving what the other node broadcast
SpecDomainFair ==
    /\ Init
    /\ [][NextDomain]_vars
    /\ \A n \in Nodes : WF_vars(Announces(n))
    /\ \A n \in Nodes : \A m \in Nodes \ {n} : WF_vars(Hears(n, m))

(* ------------------------------ properties ---------------------------- *)
\* the session row of caller c's current call
TaskRow(c) == tasks[Home(c)][task[c]]

\* the step is a call of submit by caller c
Calls(c) == submits' # submits /\ pc[c] # "poll" /\ pc'[c] # "idle"

\* the place of a status in the order Submitted, Processing, {Completed, TimedOut}
Rank(status) ==
    CASE status = "submitted" -> 1
      [] status = "processing" -> 2
      [] OTHER -> 3

Terminal == {"completed", "timedout"}

\* a peer row submit may select, in the words of the specification
Qualifies(a) == a.status = "ONLINE" /\ a.task_queue_size < 5

\* the registry rows carrying the id
RowsOf(ag, id) == {i \in 1..Len(ag) : ag[i].agent_id = id}

\* the datagrams carrying n's own id that may reach n's listener
SelfDatagrams(n) ==
    {d \in Injected(n, {n}, MessageTypes) \cup net : ParseOk(d) /\ parse_message(d).sender_id = n}

\* C1: a submit call that selected a peer and allocated a session, and for whose session
\* no TaskResponse was handled, has returned the timeout error after its 30 checks, and
\* the row's status is then TimedOut.
C1_TimeoutMarksRow ==
    \A c \in Callers :
        (pc[c] = "done" /\ task[c] # 0 /\ TaskRow(c).completed = 0)
            => /\ rc[c] = -1
               /\ result[c] = TimeoutText
               /\ timeout[c] = 0
               /\ TaskRow(c).status = "timedout"

\* C2: once the submit call of a session has returned the timeout error, no step (the
\* handling of a later TaskResponse with the session's id among them) changes the
\* status, the result or the completed timestamp of the session's row.
C2_LateResponseDropped ==
    [][\A c \in Callers :
          (pc[c] = "done" /\ task[c] # 0 /\ result[c] = TimeoutText /\ pc'[c] = "done")
              => /\ tasks'[Home(c)][task[c]].status = TaskRow(c).status
                 /\ tasks'[Home(c)][task[c]].result = TaskRow(c).result
                 /\ tasks'[Home(c)][task[c]].completed = TaskRow(c).completed]_vars

\* C3: in the system of two started nodes, a submit on A that found B Online at depth 0
\* returns success, A's row of the session is Completed, and the result returned is the
\* text B produced for the description.
C3_SubmitSucceeds ==
    \A c \in Callers :
        (/\ pc[c] = "done"
         /\ task[c] # 0
         /\ TaskRow(c).assigned_agent = "B"
         /\ agents[Home(c)][best_agent[c]].task_queue_size = 1)
            => /\ rc[c] = 0
               /\ TaskRow(c).status = "completed"
               /\ result[c] = ProcessedBy("B", TaskRow(c).task_description)

\* C4: a step leaves the result and the completed timestamp of every row that is
\* already Completed as they are: a session is resolved at most once.
C4_ResolvedOnce ==
    [][\A n \in Nodes : \A i \in 1..Len(tasks[n]) :
          tasks[n][i].status = "completed"
              => /\ tasks'[n][i].result = tasks[n][i].result
                 /\ tasks'[n][i].completed = tasks[n][i].completed]_vars

\* C5: in every step every session row stays in the table under its session id, its
\* status does not move back in the order Submitted, Processing, {Completed, TimedOut},
\* and a status that is Completed or TimedOut stays what it is.
C5_StatusForward ==
    [][\A n \in Nodes :
          /\ Len(tasks'[n]) >= Len(tasks[n])
          /\ \A i \in 1..Len(tasks[n]) :
                /\ tasks'[n][i].session_id = tasks[n][i].session_id
                /\ Rank(tasks'[n][i].status) >= Rank(tasks[n][i].status)
                /\ tasks[n][i].status \in Terminal
                       => tasks'[n][i].status = tasks[n][i].status]_vars

\* a Completed row whose result a second TaskResponse replaced after submit returned the first
C5_Witness ==
    \E c \in Callers :
        /\ pc[c] = "done"
        /\ task[c] # 0
        /\ rc[c] = 0
        /\ TaskRow(c).status = "completed"
        /\ TaskRow(c).result # result[c]

\* C6: a call of submit on a registry with no peer that is Online at a depth below 5
\* returns the no-available-peers error in the same step (the polling loop is not
\* entered), adds no session row, sends no message and changes no peer row.
C6_NoPeerFailsAtOnce ==
    [][\A c \in Callers :
          (Calls(c) /\ \A i \in 1..Len(agents[Home(c)]) : ~Qualifies(agents[Home(c)][i]))
              => /\ pc'[c] = "done"
                 /\ rc'[c] = -1
                 /\ result'[c] = NoAgentsText
                 /\ timeout'[c] = 0
                 /\ tasks' = tasks
                 /\ agents' = agents
                 /\ out' = << >>]_vars

\* submit has failed at once on a registry of an Online peer at depth 5 and a Discovering peer
C6_Witness ==
    \E c \in Callers :
        /\ pc[c] = "done"
        /\ result[c] = NoAgentsText
        /\ Len(agents[Home(c)]) = 2
        /\ agents[Home(c)][1].status = AGENT_STATUS_ONLINE
        /\ agents[Home(c)][1].task_queue_size = QUEUE_CEILING
        /\ agents[Home(c)][2].status = AGENT_STATUS_DISCOVERING

\* C7: a call of submit on a session table of 100 rows, a peer being eligible, returns
\* the capacity error and leaves the session table, the registry (the queue depths in
\* it) and the network as they were.
C7_FullTableUntouched ==
    [][\A c \in Callers :
          (/\ Calls(c)
           /\ Len(tasks[Home(c)]) = 100
           /\ \E i \in 1..Len(agents[Home(c)]) : Qualifies(agents[Home(c)][i]))
              => /\ pc'[c] = "done"
                 /\ rc'[c] = -1
                 /\ result'[c] = QueueFullText
                 /\ tasks' = tasks
                 /\ agents' = agents
                 /\ out' = << >>]_vars

\* submit has returned the capacity error on a table of 100 rows
C7_Witness ==
    \E c \in Callers :
        /\ pc[c] = "done"
        /\ result[c] = QueueFullText
        /\ Len(tasks[Home(c)]) = MAX_TASKS
        /\ \E i \in 1..Len(agents[Home(c)]) : Qualifies(agents[Home(c)][i])

\* C8: the peer a call of submit selects is Online at a depth below 5, no such peer is
\* at a lower depth, and no such peer of the same depth has a lower registry index; a
\* peer is selected whenever one qualifies.
C8_LeastLoadedFirst ==
    [][\A c \in Callers :
          Calls(c) =>
              LET ag == agents[Home(c)]
                  b == best_agent'[c]
              IN
              IF \A i \in 1..Len(ag) : ~Qualifies(ag[i])
              THEN b = 0
              ELSE /\ b \in 1..Len(ag)
                   /\ Qualifies(ag[b])
                   /\ \A j \in 1..Len(ag) :
                         Qualifies(ag[j])
                             => \/ ag[b].task_queue_size < ag[j].task_queue_size
                                \/ ag[b].task_queue_size = ag[j].task_queue_size /\ b <= j]_vars

\* submit has passed over the first row, Online at depth 4, for the second, which was at depth 1
C8_Witness ==
    \E c \in Callers :
        /\ pc[c] = "poll"
        /\ timeout[c] = POLL_TIMEOUT
        /\ best_agent[c] = 2
        /\ Len(agents[Home(c)]) >= 2
        /\ agents[Home(c)][1].status = AGENT_STATUS_ONLINE
        /\ agents[Home(c)][1].task_queue_size = 4
        /\ agents[Home(c)][2].task_queue_size = 2

\* C9 as stated: once the listener has handled a Discovery of a sender, the registry
\* holds exactly one row with the sender's id, and no two rows share an id.
C9_ExactlyOneRow ==
    /\ \A id \in SenderIds \ {Local} :
           discoveries[Local][id] >= 1 => Cardinality(RowsOf(agents[Local], id)) = 1
    /\ \A id \in SenderIds : Cardinality(RowsOf(agents[Local], id)) <= 1

\* C9: once the listener has handled a Discovery of a sender, the registry holds exactly
\* one row with the sender's id, or none if it holds MAX_AI_AGENTS rows of other ids;
\* no two rows share an id.
C9_OneRowUnlessFull ==
    /\ \A id \in SenderIds \ {Local} :
           discoveries[Local][id] >= 1
               => \/ Cardinality(RowsOf(agents[Local], id)) = 1
                  \/ /\ RowsOf(agents[Local], id) = {}
                     /\ Len(agents[Local]) = 10
    /\ \A i, j \in 1..Len(agents[Local]) :
           agents[Local][i].agent_id = agents[Local][j].agent_id => i = j

\* two Discovery messages of B have been handled and one row carries its id
C9_Witness ==
    /\ discoveries[Local]["B"] = 2
    /\ Cardinality(RowsOf(agents[Local], "B")) = 1

\* C10: no registry row ever carries the local id, and the step in which the listener
\* receives a datagram of any type carrying the local id as sender changes neither the
\* registry nor the session table.
C10_SelfIgnored ==
    /\ [](\A n \in Nodes : RowsOf(agents[n], n) = {})
    /\ [][\A d \in SelfDatagrams(Local) :
             Listen(Local, d) => (agents' = agents /\ tasks' = tasks)]_vars

\* the listener has received a Discovery carrying its own id while both tables hold rows
C10_Witness ==
    /\ discoveries[Local][Local] >= 1
    /\ Len(agents[Local]) >= 1
    /\ Len(tasks[Local]) >= 1

\* the step is a pass of n's coordination loop
Passes(n) == out' # << >> /\ out'[1].msg.type = MSG_TYPE_DISCOVERY /\ out'[1].msg.sender_id = n

\* C11 as stated: after a coordination pass every row whose last_seen was more than 30
\* seconds before the pass is Offline, whatever its status was before the pass.
C11_StaleRowsOffline ==
    [][Passes(Local) =>
          \A i \in 1..Len(agents[Local]) :
              now - agents[Local][i].last_seen > 30
                  => agents'[Local][i].status = "OFFLINE"]_vars

\* C11: after a coordination pass every row that was Online and whose last_seen was more
\* than 30 seconds before the pass is Offline; every other row is as it was.
C11_StaleOnlineRowsOffline ==
    [][Passes(Local) =>
          /\ Len(agents'[Local]) = Len(agents[Local])
          /\ \A i \in 1..Len(agents[Local]) :
                IF agents[Local][i].status = "ONLINE" /\ now - agents[Local][i].last_seen > 30
                THEN agents'[Local][i] = [agents[Local][i] EXCEPT !.status = "OFFLINE"]
                ELSE agents'[Local][i] = agents[Local][i]]_vars

\* a pass has left an Online row, not heard of for 31 seconds, Offline
C11_Witness ==
    /\ out # << >>
    /\ out[1].msg.type = MSG_TYPE_DISCOVERY
    /\ \E i \in 1..Len(agents[Local]) :
          /\ agents[Local][i].status = AGENT_STATUS_OFFLINE
          /\ agents[Local][i].capabilities = HandshakePayload
          /\ now - agents[Local][i].last_seen = STALE_AFTER + 1

\* the Discovery datagrams that may reach n's listener from senders without a row
UnknownDiscoveries(n) ==
    {d \in Injected(n, SenderIds \ {n}, {MSG_TYPE_DISCOVERY}) :
        ParseOk(d) /\ parse_message(d).type = MSG_TYPE_DISCOVERY
                   /\ RowsOf(agents[n], parse_message(d).sender_id) = {}}

\* C20: the step in which the listener of a node whose registry holds 10 rows receives a
\* Discovery of a sender without a row leaves the registry as it was.
C20_FullRegistryUnchanged ==
    [][\A d \in UnknownDiscoveries(Local) :
          (Len(agents[Local]) = 10 /\ Listen(Local, d)) => agents' = agents]_vars

\* a Discovery of Y has been handled, the registry holds 10 rows and none is Y's
C20_Witness ==
    /\ Len(agents[Local]) = MAX_AI_AGENTS
    /\ discoveries[Local]["Y"] >= 1
    /\ RowsOf(agents[Local], "Y") = {}

\* a message of the type, addressed to the id, is among those the last step sent
Sends(type, id) ==
    \E i \in 1..Len(out) : out[i].msg.type = type /\ out[i].to = id

\* C17: once the listener has handled a Discovery of another node, a Handshake
\* addressed to that sender is eventually sent.
C17_HandshakeSent ==
    \A id \in SenderIds \ {Local} :
        (discoveries[Local][id] >= 1) ~> Sends(MSG_TYPE_HANDSHAKE, id)

\* the rows the TaskRequest handler of node n made
Served(n) == {i \in 1..Len(tasks[n]) : tasks[n][i].assigned_agent = n}

\* C18: a row the TaskRequest handler made is Completed and holds a result, and once the
\* row is there a TaskResponse carrying its session id and its result is eventually sent.
C18_ResponseSent ==
    /\ [](\A i \in Served(Local) :
             tasks[Local][i].status = "completed" /\ tasks[Local][i].result # "")
    /\ \A sid \in {ForeignSid} :
          (\E i \in Served(Local) : tasks[Local][i].session_id = sid)
              ~> (\E k \in 1..Len(out) :
                     /\ out[k].msg.type = MSG_TYPE_TASK_RESPONSE
                     /\ out[k].msg.session_id = sid
                     /\ \E i \in Served(Local) : out[k].msg.payload = tasks[Local][i].result)

\* n's registry holds a row of m with status Online
KnowsOnline(n, m) ==
    \E i \in 1..Len(agents[n]) :
        agents[n][i].agent_id = m /\ agents[n][i].status = "ONLINE"

\* C19: in the system of two started nodes in one broadcast domain with reliable
\* delivery, eventually each node's registry holds the other node as Online.
C19_MutualDiscovery ==
    <>(\A n \in Nodes : \A m \in Nodes \ {n} : KnowsOnline(n, m))

\* C12: a message the sender builds from a payload of at most 8192 bytes comes out of
\* the decoder with the type, sender_id, recipient_id, session_id and timestamp the
\* sender gave it and with that payload.
C12_RoundTrip ==
    (codec.stage = "parsed" /\ Len(codec.given.payload) <= 8192)
        => /\ codec.parsed.type = codec.given.type
           /\ codec.parsed.sender_id = Local
           /\ codec.parsed.recipient_id = codec.given.recipient
           /\ codec.parsed.session_id = codec.msg.session_id
           /\ codec.parsed.timestamp = codec.msg.timestamp
           /\ codec.parsed.payload = codec.given.payload

\* the threads that take locks
LockUsers == Threads \cup Callers

\* thread t is inside pthread_mutex_lock, or about to call it
Waiting(t) ==
    \/ t = "listener" /\ at[t] = "acquire"
    \/ t = "coordinator" /\ at[t] = "sweep"
    \/ t = "reporter" /\ at[t] \in {"agents", "tasks"}
    \/ t = "stopper" /\ at[t] = "send"
    \/ t \in Callers /\ pc[t] \in {"wait_agents", "wait_tasks", "poll"}

\* thread t holds a lock and waits for one that thread u holds
WaitsFor(t, u) ==
    /\ Waiting(t)
    /\ \E held, wanted \in DOMAIN mutex :
          held # wanted /\ mutex[held] = t /\ mutex[wanted] = u

\* C13: no thread waits for a lock while it holds the session lock without the registry
\* lock (so none requests the registry lock after the session lock, and none requests
\* a lock it already holds), and no two threads wait for each other's locks
C13_LockOrder ==
    /\ \A t \in LockUsers :
          ~(Waiting(t) /\ mutex["tasks_mutex"] = t /\ mutex["agents_mutex"] # t)
    /\ \A t, u \in LockUsers : ~(WaitsFor(t, u) /\ WaitsFor(u, t))

\* the listener holds both locks for a TaskResponse while submit, get_status and cleanup
\* wait for the registry lock
C13_Witness ==
    /\ mutex["agents_mutex"] = "listener" /\ mutex["tasks_mutex"] = "listener"
    /\ lmsg.type = MSG_TYPE_TASK_RESPONSE
    /\ \E c \in Callers : pc[c] = "wait_agents"
    /\ at["reporter"] = "agents"
    /\ at["stopper"] = "send"

\* C14: the registry rows a thread reads are never in the middle of a handler's update:
\* the row the coordinator reads for the health display is never a counted row whose id
\* and status are not yet written
C14_NoPartialRow == ~(seen # NoRow /\ seen.agent_id = "")

\* C15: once cleanup has cleared running, the listener loop and the coordination loop
\* exit and cleanup returns
C15_StopReturns ==
    (running = 0) ~>
        (at["listener"] = "exited" /\ at["coordinator"] = "exited" /\ at["stopper"] = "returned")

\* the Shutdown messages among the sends of a step, by place in the sequence
ShutdownsIn(sends) == {k \in 1..Len(sends) : sends[k].msg.type = MSG_TYPE_SHUTDOWN}

\* C16: the step of cleanup between its lock and its unlock, which comes before both
\* joins, sends exactly one Shutdown to each row that is Online at that moment and none
\* to any other row or address, and no other step of any thread sends a Shutdown
C16_OneShutdownEach ==
    [][IF at["stopper"] = "send" /\ at'["stopper"] = "join_listener"
       THEN /\ \A i \in 1..Len(agents[Local]) :
                 Cardinality({k \in ShutdownsIn(out') :
                                 /\ out'[k].to = agents[Local][i].agent_id
                                 /\ out'[k].port = agents[Local][i].port})
                     = IF agents[Local][i].status = AGENT_STATUS_ONLINE THEN 1 ELSE 0
            /\ \A k \in ShutdownsIn(out') :
                 \E i \in 1..Len(agents[Local]) : out'[k].to = agents[Local][i].agent_id
       ELSE ShutdownsIn(out') = {}]_vars

\* cleanup has sent its Shutdowns and waits for the listener; the registry held an
\* Online row and a row that was not Online
C16_Witness ==
    /\ at["stopper"] = "join_listener"
    /\ at["listener"] # "exited"
    /\ Cardinality(ShutdownsIn(out)) = 1
    /\ \E i, j \in 1..Len(agents[Local]) :
          /\ agents[Local][i].status = AGENT_STATUS_ONLINE
          /\ agents[Local][j].status # AGENT_STATUS_ONLINE
          /\ out[1].to = agents[Local][i].agent_id

\* C21: a call of submit that has returned has returned success with a result, or one of
\* the three errors with its text: capacity, no available peer, timeout
C21_FourOutcomes ==
    \A c \in Callers :
        pc[c] = "done" =>
            \/ rc[c] = 0
            \/ rc[c] = -1 /\ result[c] \in {QueueFullText, NoAgentsText, TimeoutText}

\* C22: no datagram takes the listener to a crash, and a turn of the listener that does
\* not hand a message to handle_message leaves the registry and the session table as
\* they were
C22_DecodeFailsCleanly ==
    /\ [](at["listener"] # "crashed")
    /\ [][(at["listener"] = "recv" /\ at'["listener"] # "acquire")
             => (agents' = agents /\ tasks' = tasks)]_vars

\* the lock a thread inside get_status waits for ("" when it waits for none)
ReporterWants ==
    CASE at["reporter"] = "agents" -> "agents_mutex"
      [] at["reporter"] = "tasks" -> "tasks_mutex"
      [] OTHER -> ""

\* thread t is inside send_message_to_agent
InSend(t) == t = "coordinator" /\ at["coordinator"] = "sending"

\* C23: a get_status call never waits for a lock whose holder is inside a send or connect
C23_StatusNeverWaitsOnSend ==
    ~(/\ ReporterWants # ""
      /\ \E t \in LockUsers : mutex[ReporterWants] = t /\ InSend(t))

\* C24: while a caller is in the polling window of submit, cleanup has not destroyed the
\* locks and freed the session table
C24_PollOutlivesStop == \A c \in Callers : pc[c] = "poll" => ~Freed

\* the first row submit's loop may keep: none qualifies before it with a smaller or
\* equal depth, none after it with a smaller depth
Chosen(ag, b) ==
    /\ Qualifies(ag[b])
    /\ \A i \in 1..Len(ag) :
          Qualifies(ag[i]) =>
              \/ ag[i].task_queue_size > ag[b].task_queue_size
              \/ ag[i].task_queue_size = ag[b].task_queue_size /\ i >= b

\* C25: a call of submit that finds a qualifying peer and a free session row appends one
\* row, Submitted and assigned to the selected peer, leaves the rows before it as they
\* were, hands one TaskRequest to the transport, addressed to that peer, carrying the new
\* row's session id and the description, raises that peer's queue depth by one and
\* changes nothing else in the registry
C25_SubmitEffect ==
    [][\A c \in Callers :
          LET n == Home(c)
              ag == agents[n]
              tk == tasks[n]
          IN
          (Calls(c) /\ (\E i \in 1..Len(ag) : Qualifies(ag[i])) /\ Len(tk) < 100) =>
              \E b \in 1..Len(ag) :
                  /\ Chosen(ag, b)
                  /\ Len(tasks'[n]) = Len(tk) + 1
                  /\ \A i \in 1..Len(tk) : tasks'[n][i] = tk[i]
                  /\ tasks'[n][Len(tk) + 1].status = "submitted"
                  /\ tasks'[n][Len(tk) + 1].assigned_agent = ag[b].agent_id
                  /\ \A i \in 1..Len(tk) : tk[i].session_id # tasks'[n][Len(tk) + 1].session_id
                  /\ Len(out') = 1
                  /\ out'[1].to = ag[b].agent_id
                  /\ out'[1].port = ag[b].port
                  /\ out'[1].msg.type = MSG_TYPE_TASK_REQUEST
                  /\ out'[1].msg.sender_id = n
                  /\ out'[1].msg.recipient_id = ag[b].agent_id
                  /\ out'[1].msg.session_id = tasks'[n][Len(tk) + 1].session_id
                  /\ \E description \in Descs :
                        /\ out'[1].msg.payload = description
                        /\ tasks'[n][Len(tk) + 1].task_description = description
                  /\ agents'[n] = [ag EXCEPT ![b].task_queue_size = @ + 1]
                  /\ \A m \in Nodes \ {n} : agents'[m] = agents[m] /\ tasks'[m] = tasks[m]]_vars

\* a call has added its row behind those of earlier calls and raised the depth of the
\* second of two registry rows, which was not the only Online one
C25_Witness ==
    \E c \in Callers :
        /\ pc[c] = "poll"
        /\ task[c] = Len(tasks[Home(c)])
        /\ task[c] >= 2
        /\ Len(out) = 1
        /\ best_agent[c] = 2
        /\ Len(agents[Home(c)]) = 2
        /\ agents[Home(c)][1].status = AGENT_STATUS_ONLINE
        /\ agents[Home(c)][2].task_queue_size >= 1

\* the listener is in handle_message with a TaskResponse whose session id no row carries
UnmatchedResponse ==
    /\ at["listener"] = "handle"
    /\ lmsg.type = MSG_TYPE_TASK_RESPONSE
    /\ \A i \in 1..Len(tasks[Local]) : tasks[Local][i].session_id # lmsg.session_id

\* C26: handling a TaskResponse whose session id matches no session row leaves the
\* session table and the registry as they were and the listener goes back to its loop
C26_UnmatchedResponseDropped ==
    [][UnmatchedResponse =>
          /\ tasks' = tasks
          /\ agents' = agents
          /\ at'["listener"] \in {"handle", "check"}]_vars

\* such a TaskResponse is being handled while the session table holds a row
C26_Witness == UnmatchedResponse /\ Len(tasks[Local]) >= 1 /\ Len(agents[Local]) >= 2

\* C27: in every session table no two rows carry the same session id
C27_OneRowPerSession ==
    \A n \in Nodes : \A i, j \in 1..Len(tasks[n]) :
        i # j => tasks[n][i].session_id # tasks[n][j].session_id

\* the Handshake datagrams carrying the sender id
HandshakesOf(id) ==
    {d \in Injected(Local, {id}, {MSG_TYPE_HANDSHAKE}) :
        ParseOk(d) /\ parse_message(d).type = MSG_TYPE_HANDSHAKE
                   /\ parse_message(d).sender_id = id}

\* C28: a registry row that a step adds is Discovering; the listener's turn on a
\* Handshake whose sender has a Discovering row makes that row Online with last_seen the
\* time of the turn; and a Discovering row becomes Online in no step but the listener's
\* turn on a Handshake carrying the row's id
C28_OnlineByHandshakeOnly ==
    [][/\ Len(agents'[Local]) > Len(agents[Local]) =>
             agents'[Local][Len(agents'[Local])].status = "DISCOVERING"
       /\ \A i \in 1..Len(agents[Local]) :
             agents[Local][i].status = "DISCOVERING" =>
                 /\ \A d \in HandshakesOf(agents[Local][i].agent_id) :
                       (Listen(Local, d) /\ \A j \in 1..(i - 1) :
                                               agents[Local][j].agent_id # agents[Local][i].agent_id)
                           => /\ agents'[Local][i].status = "ONLINE"
                              /\ agents'[Local][i].last_seen = now
                 /\ agents'[Local][i].status = "ONLINE" =>
                       \E d \in HandshakesOf(agents[Local][i].agent_id) : Listen(Local, d)]_vars

\* the Heartbeat messages among the sends of a step, by place in the sequence
HeartbeatsIn(sends) == {k \in 1..Len(sends) : sends[k].msg.type = MSG_TYPE_HEARTBEAT}

\* C29: a coordination pass sends one Heartbeat to each row that is Online with
\* now - last_seen <= 30 when the pass examines it, and none to a row it demotes, to a row
\* that is not Online, or to anyone else
C29_HeartbeatIffFresh ==
    [][Passes(Local) =>
          /\ \A i \in 1..Len(agents[Local]) :
                Cardinality({k \in HeartbeatsIn(out') :
                                /\ out'[k].to = agents[Local][i].agent_id
                                /\ out'[k].msg.recipient_id = agents[Local][i].agent_id})
                    = IF /\ agents[Local][i].status = "ONLINE"
                         /\ now - agents[Local][i].last_seen <= 30
                      THEN 1 ELSE 0
          /\ \A k \in HeartbeatsIn(out') :
                \E i \in 1..Len(agents[Local]) : out'[k].to = agents[Local][i].agent_id]_vars

\* one pass has sent a Heartbeat to an Online row, demoted another that was not heard of
\* for 31 seconds, and passed by a Discovering row
C29_Witness ==
    /\ out # << >>
    /\ out[1].msg.type = MSG_TYPE_DISCOVERY
    /\ Cardinality(HeartbeatsIn(out)) = 1
    /\ \E i, j, k \in 1..Len(agents[Local]) :
          /\ agents[Local][i].status = AGENT_STATUS_ONLINE
          /\ \E h \in HeartbeatsIn(out) : out[h].to = agents[Local][i].agent_id
          /\ agents[Local][j].status = AGENT_STATUS_OFFLINE
          /\ agents[Local][j].capabilities = HandshakePayload
          /\ now - agents[Local][j].last_seen = STALE_AFTER + 1
          /\ agents[Local][k].status = AGENT_STATUS_DISCOVERING

\* C30: a Heartbeat carries the telemetry of the node that sends it, not values of the
\* recipient's registry row: the Heartbeats one node sends in one pass all carry the same
\* load, memory and queue depth, whatever the rows of their recipients hold
C30_HeartbeatCarriesOwnTelemetry ==
    [][Passes(Local) =>
          \A k, l \in HeartbeatsIn(out') : out'[k].msg.payload = out'[l].msg.payload]_vars

\* C31: a session row has a completed timestamp (not 0) exactly when its status is
\* terminal; a row that is submitted or processing has completed unset
C31_CompletedIffTerminal ==
    \A n \in Nodes : \A i \in 1..Len(tasks[n]) :
        /\ (tasks[n][i].completed # 0) <=> (tasks[n][i].status \in {"completed", "timedout", "failed"})
        /\ tasks[n][i].status \in {"submitted", "processing"} => tasks[n][i].completed = 0

\* a submitted row was completed by a TaskResponse a while after it was created, and
\* another row was made by a TaskRequest
C31_Witness ==
    \E i, j \in 1..Len(tasks[Local]) :
        /\ tasks[Local][i].assigned_agent = "B"
        /\ tasks[Local][i].status = "completed"
        /\ tasks[Local][i].completed > tasks[Local][i].created
        /\ tasks[Local][j].assigned_agent = Local
        /\ tasks[Local][j].completed # 0

\* C32: the identity is generated once by init and stays until cleanup has freed the
\* system; a call of init made while the system exists returns 0, generates no identity,
\* creates no thread and leaves the registry and the session table as they are
C32_StartedOnce ==
    /\ [][booted'.local_agent_id # booted.local_agent_id => at["stopper"] = "returned"]_vars
    /\ [][(at["stopper"] # "returned" /\ booted'.calls # booted.calls) =>
              /\ booted'.rc = 0
              /\ booted'.local_agent_id = booted.local_agent_id
              /\ booted'.threads = booted.threads
              /\ agents' = agents
              /\ tasks' = tasks
              /\ at' = at]_vars

\* init has been called again on the running system, whose registry holds a peer; the
\* identity is the one of the first call
C32_Witness ==
    /\ booted.calls > 0
    /\ booted.rc = 0
    /\ booted.local_agent_id = 1
    /\ booted.threads = 2
    /\ at["stopper"] = "idle"
    /\ running = 1
    /\ agents[Local] # << >>

\* C33: the status of every registry row is Discovering, Online or Offline; Connecting,
\* Busy and Error are never assigned, not even after a send to the peer
C33_ThreeStatuses ==
    \A n \in Nodes : \A i \in 1..Len(agents[n]) :
        agents[n][i].status \in {"DISCOVERING", "ONLINE", "OFFLINE"}

\* submit has just made its send to a peer (a TCP connection nobody accepts), and the
\* registry also holds a peer the coordination pass has demoted
C33_Witness ==
    /\ out # << >>
    /\ out[1].msg.type = MSG_TYPE_TASK_REQUEST
    /\ \E i, j \in 1..Len(agents[Local]) :
          /\ agents[Local][i].agent_id = out[1].to
          /\ agents[Local][i].status = AGENT_STATUS_ONLINE
          /\ agents[Local][j].status = AGENT_STATUS_OFFLINE

C35_CountsBounded ==
    /\ [](Len(tasks[Local]) <= 100 /\ Len(agents[Local]) <= 10)
    /\ [][/\ Len(tasks'[Local]) >= Len(tasks[Local])
          /\ Len(agents'[Local]) >= Len(agents[Local])
          /\ \A i \in 1..Len(tasks[Local]) : tasks'[Local][i].session_id = tasks[Local][i].session_id
          /\ \A i \in 1..Len(agents[Local]) :
                agents[Local][i].agent_id # "" => agents'[Local][i].agent_id = agents[Local][i].agent_id
          /\ Len(tasks[Local]) = 100 =>
                /\ tasks'[Local] = tasks[Local]
                /\ \A c \in Callers :
                      (pc[c] = "wait_tasks" /\ pc'[c] # pc[c]) =>
                          /\ pc'[c] = "done"
                          /\ rc'[c] = -1
                          /\ result'[c] = QueueFullText]_vars

\* both tables are full: one caller's submit took the last session row, the other caller
\* selected a peer and was refused, and no TaskRequest has left a row
C35_Witness ==
    /\ Len(tasks[Local]) = MAX_TASKS
    /\ Len(agents[Local]) = MAX_AI_AGENTS
    /\ \E c, d \in Callers :
          /\ pc[c] = "poll"
          /\ task[c] = MAX_TASKS
          /\ pc[d] = "done"
          /\ result[d] = QueueFullText
    /\ at["listener"] = "check"
    /\ \A i \in 1..Len(tasks[Local]) : tasks[Local][i].session_id # ForeignSid

RECURSIVE DepthSum(_, _)
\* the queue depths of the rows of ag from row i on, added up
DepthSum(ag, i) == IF i > Len(ag) THEN 0 ELSE ag[i].task_queue_size + DepthSum(ag, i + 1)

\* caller c has selected a peer and now leaves the critical section
Allocates(c) == pc[c] = "wait_tasks" /\ pc'[c] # pc[c]

\* the step gives c a new session row and raises the depth of the peer c selected
GetsRow(c) ==
    /\ pc'[c] = "poll"
    /\ Len(tasks'[Local]) = Len(tasks[Local]) + 1
    /\ task'[c] = Len(tasks'[Local])
    /\ DepthSum(agents'[Local], 1) = DepthSum(agents[Local], 1) + 1
    /\ agents'[Local][best_agent[c]].task_queue_size =
           agents[Local][best_agent[c]].task_queue_size + 1

\* no two callers hold the same session row
DistinctRows ==
    \A c, d \in Callers :
        (c # d /\ task[c] # 0 /\ task[d] # 0) =>
            /\ task[c] # task[d]
            /\ tasks[Local][task[c]].session_id # tasks[Local][task[d]].session_id

\* from selection to the increment the registry is the caller's: no other step writes it,
\* and the row selected is Online with a depth below 5
HeldRegistry ==
    \A c \in Callers :
        /\ (pc[c] = "wait_tasks" /\ pc'[c] = pc[c]) => agents' = agents
        /\ (pc[c] = "wait_agents" /\ pc'[c] = "wait_tasks") =>
               /\ agents[Local][best_agent'[c]].status = "ONLINE"
               /\ agents[Local][best_agent'[c]].task_queue_size < 5
        /\ pc[c] = "wait_tasks" => agents[Local][best_agent[c]].task_queue_size < 5

\* C36 as stated: every one of the concurrent submit calls that passes selection is given
\* a session row of its own and raises the sum of the depths by 1, no peer is selected at
\* depth 5, and nothing else writes the registry in between
C36_EverySelectionGetsRow ==
    /\ []DistinctRows
    /\ [][HeldRegistry /\ \A c \in Callers : Allocates(c) => GetsRow(c)]_vars

\* C36: selection, allocation and increment of a submit call are one critical section:
\* every concurrent call that passes selection and finds a free session row is given a row
\* of its own and raises the sum of the depths by 1; a call that finds the table full
\* returns the capacity error and changes neither table; no peer is selected at depth 5
C36_AtomicSubmit ==
    /\ []DistinctRows
    /\ [][/\ HeldRegistry
          /\ \A c \in Callers :
                Allocates(c) =>
                    IF Len(tasks[Local]) < 100
                    THEN GetsRow(c)
                    ELSE /\ pc'[c] = "done"
                         /\ result'[c] = QueueFullText
                         /\ tasks' = tasks
                         /\ agents' = agents]_vars

\* two concurrent calls have both passed selection of the same peer and both were given a
\* row; the peer's depth has gone from 3 to 5
C36_Witness ==
    /\ pc["c1"] = "poll"
    /\ pc["c2"] = "poll"
    /\ task["c1"] # task["c2"]
    /\ best_agent["c1"] = best_agent["c2"]
    /\ agents[Local][best_agent["c1"]].task_queue_size = QUEUE_CEILING
    /\ Len(tasks[Local]) = MAX_TASKS

\* the rows of the local session table that carry the session id
SessionRows(sid) == {i \in 1..Len(tasks[Local]) : tasks[Local][i].session_id = sid}

\* C37: a TaskResponse is matched by its session id alone: whoever sent it (but the local
\* node) and whomever it names as recipient, the first row with its session id takes the
\* payload as result and becomes completed, and nothing else changes
C37_ResponseMatchedBySessionOnly ==
    [][\A d \in AnyResponses(Local) :
          Listen(Local, d) =>
              /\ agents' = agents
              /\ IF d.sender = Local \/ SessionRows(d.session) = {}
                 THEN tasks' = tasks
                 ELSE \E i \in SessionRows(d.session) :
                         /\ \A j \in SessionRows(d.session) : i <= j
                         /\ Len(tasks'[Local]) = Len(tasks[Local])
                         /\ tasks'[Local][i].result = d.payload
                         /\ tasks'[Local][i].status = "completed"
                         /\ tasks'[Local][i].completed = now
                         /\ tasks'[Local][i].session_id = tasks[Local][i].session_id
                         /\ tasks'[Local][i].assigned_agent = tasks[Local][i].assigned_agent
                         /\ \A j \in 1..Len(tasks[Local]) :
                               j # i => tasks'[Local][j] = tasks[Local][j]]_vars

\* the row of a submit to B holds the result of a TaskResponse sent by X, and of two rows
\* with one session id the first holds the result of a TaskResponse, the second does not
C37_Witness ==
    /\ \E i \in 1..Len(tasks[Local]) :
          /\ tasks[Local][i].assigned_agent = "B"
          /\ tasks[Local][i].status = "completed"
          /\ tasks[Local][i].result = ProcessedBy("X", "x")
    /\ \E j, k \in 1..Len(tasks[Local]) :
          /\ j < k
          /\ tasks[Local][j].session_id = tasks[Local][k].session_id
          /\ tasks[Local][j].result = ProcessedBy("B", "x")
          /\ tasks[Local][k].result = ProcessedBy(Local, "x")

\* C38: a Discovery from a sender that has a registry row changes last_seen of that row
\* and nothing else: status, port, capabilities and queue depth stay, the other rows and
\* the session table stay; an Offline row stays Offline
C38_DiscoveryRefreshesOnly ==
    [][\A d \in Injected(Local, {"B", "X"}, {MSG_TYPE_DISCOVERY}) :
          (/\ ParseOk(d)
           /\ parse_message(d).type = MSG_TYPE_DISCOVERY
           /\ RowsOf(agents[Local], parse_message(d).sender_id) # {}
           /\ Listen(Local, d)) =>
              /\ tasks' = tasks
              /\ Len(agents'[Local]) = Len(agents[Local])
              /\ \A i \in 1..Len(agents[Local]) :
                    IF agents[Local][i].agent_id = parse_message(d).sender_id
                    THEN /\ agents'[Local][i].last_seen = now
                         /\ agents'[Local][i].status = agents[Local][i].status
                         /\ agents'[Local][i].port = agents[Local][i].port
                         /\ agents'[Local][i].capabilities = agents[Local][i].capabilities
                         /\ agents'[Local][i].task_queue_size = agents[Local][i].task_queue_size
                         /\ agents'[Local][i].agent_id = agents[Local][i].agent_id
                    ELSE agents'[Local][i] = agents[Local][i]]_vars

\* an Offline peer with a queue depth and capabilities has sent Discovery again: its row
\* was seen now and is Offline as before
C38_Witness ==
    \E i \in 1..Len(agents[Local]) :
        /\ agents[Local][i].status = AGENT_STATUS_OFFLINE
        /\ agents[Local][i].last_seen = now
        /\ agents[Local][i].task_queue_size > 0
        /\ agents[Local][i].capabilities = HandshakePayload

\* C39: a Heartbeat or a Handshake from a sender that has a registry row makes that row
\* Online and sets its last_seen to now, whatever its status was (an Offline row too); from a
\* sender without a row it creates no row and changes nothing
C39_HeartbeatOrHandshakeRevives ==
    [][\A d \in Injected(Local, {"B", "X"}, {MSG_TYPE_HANDSHAKE, MSG_TYPE_HEARTBEAT}) :
          (/\ ParseOk(d)
           /\ parse_message(d).type \in {MSG_TYPE_HANDSHAKE, MSG_TYPE_HEARTBEAT}
           /\ Listen(Local, d)) =>
              /\ tasks' = tasks
              /\ Len(agents'[Local]) = Len(agents[Local])
              /\ \A i \in 1..Len(agents[Local]) :
                    IF agents[Local][i].agent_id = parse_message(d).sender_id
                    THEN /\ agents'[Local][i].status = "ONLINE"
                         /\ agents'[Local][i].last_seen = now
                         /\ agents'[Local][i].agent_id = agents[Local][i].agent_id
                         /\ agents'[Local][i].port = agents[Local][i].port
                         /\ agents'[Local][i].task_queue_size = agents[Local][i].task_queue_size
                    ELSE agents'[Local][i] = agents[Local][i]]_vars

\* before any submit, a row with a queue depth is Online and was seen now: it was Offline,
\* and a Handshake or a Heartbeat of its peer has been handled
C39_Witness ==
    /\ submits = 0
    /\ \E i \in 1..Len(agents[Local]) :
          /\ agents[Local][i].status = AGENT_STATUS_ONLINE
          /\ agents[Local][i].task_queue_size > 0
          /\ agents[Local][i].last_seen = now

====
